---- MODULE Spec2Model ----
(***************************************************************************)
(* Plate tectonics on a tile graph: Tectonics::from_config (region growing *)
(* with merging of undersized plates), the soft_sphere Shape (point masses *)
(* and springs on the unit sphere) and Tectonics::simulate.                *)
(*                                                                         *)
(* Numbers.  An f32 is a fixed-point integer: the value v is the integer   *)
(* v * Unit.  Points of the unit sphere are the six lattice points         *)
(* (+-Unit on one axis); an angle is measured in units of a quarter turn   *)
(* divided by Unit, so acos(1) = 0, acos(0) = Unit, acos(-1) = 2 * Unit.   *)
(* NaN and +infinity are the sentinels NaNVal and PosInf.                  *)
(* Indices are 0-based as in the source; a Vec is a 1-based sequence, so   *)
(* element i of a Vec v is v[i + 1].                                       *)
(***************************************************************************)
EXTENDS Integers, Sequences, FiniteSets, TLC

\* ------------------------------------------------------------- bounds
\* largest config.iterations the driver is given
MaxIterations == 2
\* cap on generated_majors + generated_minors (plates started by one call)
MaxGenerated == 8
\* cap on the add_point_mass and add_spring calls made on one Shape
MaxShapeCalls == 5

\* ------------------------------------------------------------- f32
Unit == 6 * 10
NaNVal == 0 - 1000000
PosInf == 0 + 1000000
\* usize::MAX, the value of a saturating `as usize` cast of +infinity
UsizeMax == 0 + 2000000000

OCEANIC_PARTICLE_MASS == 1
CONTINENTAL_PARTICLE_MASS == 5

Abs(a) == IF a >= 0 THEN a ELSE -a
Sign(a) == IF a > 0 THEN 1 ELSE IF a < 0 THEN -1 ELSE 0
\* integer quotient rounded toward zero (b > 0)
Div(a, b) == IF a >= 0 THEN a \div b ELSE -((-a) \div b)
\* quotient rounded to nearest (b > 0)
RoundDiv(a, b) == IF a >= 0 THEN (2 * a + b) \div (2 * b) ELSE -((2 * (-a) + b) \div (2 * b))

IsFinite(a) == a # NaNVal /\ a # PosInf

\* a * b on f32 (finite operands)
F32Mul(a, b) == Div(a * b, Unit)

\* a / b on f32, with IEEE division by zero: x/0 = +inf for x > 0, 0/0 = NaN
F32Div(a, b) ==
    IF a = NaNVal \/ b = NaNVal THEN NaNVal
    ELSE IF a = PosInf THEN (IF b = PosInf THEN NaNVal ELSE PosInf)
    ELSE IF b = PosInf THEN 0
    ELSE IF b = 0 THEN (IF a = 0 THEN NaNVal ELSE PosInf)
    ELSE IF b > 0 THEN Div(a * Unit, b)
    ELSE -Div(a * Unit, -b)

\* a < b and a > b on f32: every comparison with NaN is false
F32Lt(a, b) == a # NaNVal /\ b # NaNVal /\ a < b
F32Gt(a, b) == a # NaNVal /\ b # NaNVal /\ a > b

\* `x as usize` for an f32 x: NaN -> 0, negative -> 0, +inf -> usize::MAX
AsUsize(a) ==
    IF a = NaNVal THEN 0
    ELSE IF a = PosInf THEN UsizeMax
    ELSE IF a < 0 THEN 0
    ELSE a \div Unit

\* `n as f32` for a usize n
AsF32(n) == n * Unit

\* (0.0..=1.0).contains(&x)
InUnitRange(x) == x # NaNVal /\ 0 <= x /\ x <= Unit

\* ------------------------------------------------------------- Vec3
ZERO == <<0, 0, 0>>
NAN3 == <<NaNVal, NaNVal, NaNVal>>
IsNaN3(v) == v[1] = NaNVal

VAdd(a, b) == IF IsNaN3(a) \/ IsNaN3(b) THEN NAN3 ELSE <<a[1] + b[1], a[2] + b[2], a[3] + b[3]>>
VSub(a, b) == IF IsNaN3(a) \/ IsNaN3(b) THEN NAN3 ELSE <<a[1] - b[1], a[2] - b[2], a[3] - b[3]>>
VNeg(a) == IF IsNaN3(a) THEN NAN3 ELSE <<-a[1], -a[2], -a[3]>>
\* vector * f32 scalar
VScale(a, s) ==
    IF IsNaN3(a) \/ s = NaNVal THEN NAN3
    ELSE <<F32Mul(a[1], s), F32Mul(a[2], s), F32Mul(a[3], s)>>
\* vector / f32 scalar (s > 0)
VDivS(a, s) ==
    IF IsNaN3(a) \/ s = NaNVal THEN NAN3
    ELSE <<F32Div(a[1], s), F32Div(a[2], s), F32Div(a[3], s)>>
Dot(a, b) ==
    IF IsNaN3(a) \/ IsNaN3(b) THEN NaNVal
    ELSE Div(a[1] * b[1] + a[2] * b[2] + a[3] * b[3], Unit)
Cross(a, b) ==
    IF IsNaN3(a) \/ IsNaN3(b) THEN NAN3
    ELSE <<Div(a[2] * b[3] - a[3] * b[2], Unit),
           Div(a[3] * b[1] - a[1] * b[3], Unit),
           Div(a[1] * b[2] - a[2] * b[1], Unit)>>

\* integer square root
RECURSIVE IsqrtFrom(_, _)
IsqrtFrom(n, r) == IF (r + 1) * (r + 1) > n THEN r ELSE IsqrtFrom(n, r + 1)
Isqrt(n) == IsqrtFrom(n, 0)

\* the square root of f32::MAX on the model's scale: a component of this magnitude
\* has a square that is not finite; Big stands for a finite f32 far beyond it
SqrtMax == 300 * Unit
Big == 20 * SqrtMax
SquareOverflows(a) == \E i \in 1..3 : Abs(a[i]) >= SqrtMax

\* Vec3::length, sqrt(self.dot(self)): +infinity when the squares overflow
Length(a) ==
    IF IsNaN3(a) THEN NaNVal
    ELSE IF SquareOverflows(a) THEN PosInf
    ELSE Isqrt(a[1] * a[1] + a[2] * a[2] + a[3] * a[3])

\* Vec3::normalize, self * (1 / length), on the lattice: the unit vector of the
\* dominant component (the first one on ties); the zero vector has no direction and
\* gives NaN, a vector of infinite length gives the zero vector
Normalize(a) ==
    IF IsNaN3(a) \/ a = ZERO THEN NAN3
    ELSE IF SquareOverflows(a) THEN ZERO
    ELSE IF Abs(a[1]) >= Abs(a[2]) /\ Abs(a[1]) >= Abs(a[3]) THEN <<Sign(a[1]) * Unit, 0, 0>>
    ELSE IF Abs(a[2]) >= Abs(a[3]) THEN <<0, Sign(a[2]) * Unit, 0>>
    ELSE <<0, 0, Sign(a[3]) * Unit>>

\* x.clamp(-1., 1.)
Clamp(x) == IF x = NaNVal THEN NaNVal ELSE IF x < -Unit THEN -Unit ELSE IF x > Unit THEN Unit ELSE x

\* f32::acos on [-1, 1], linear between its exact values at -1, 0 and 1
Acos(x) == IF x = NaNVal THEN NaNVal ELSE Unit - x

\* PointMass::geodesic_distance, on positions
geodesic_distance(p, q) == Acos(Clamp(Dot(p, q)))

\* Vec2 (Plate::drift_direction)
V2Add(a, b) == IF a[1] = NaNVal \/ b[1] = NaNVal THEN <<NaNVal, NaNVal>> ELSE <<a[1] + b[1], a[2] + b[2]>>
V2Scale(a, s) == IF a[1] = NaNVal THEN <<NaNVal, NaNVal>> ELSE <<F32Mul(a[1], s), F32Mul(a[2], s)>>
Normalize2(a) ==
    IF a[1] = NaNVal \/ a = <<0, 0>> THEN <<NaNVal, NaNVal>>
    ELSE IF Abs(a[1]) >= Abs(a[2]) THEN <<Sign(a[1]) * Unit, 0>>
    ELSE <<0, Sign(a[2]) * Unit>>

\* ------------------------------------------------------------- helpers
Range(s) == {s[i] : i \in 1..Len(s)}
RECURSIVE SumSeq(_)
SumSeq(s) == IF s = <<>> THEN 0 ELSE s[1] + SumSeq(Tail(s))
\* every enumeration of a finite set: the orders a HashSet / HashMap may iterate in
RECURSIVE HashOrders(_)
HashOrders(S) ==
    IF S = {} THEN {<<>>}
    ELSE UNION {{<<x>> \o o : o \in HashOrders(S \ {x})} : x \in S}

\* HashMap::insert
MapInsert(m, k, v) == [x \in DOMAIN m \cup {k} |-> IF x = k THEN v ELSE m[x]]

\* the elements that some iteration order of S has at index r (0-based):
\* {o[r + 1] : o \in HashOrders(S)}, which is all of S
IterationNth(S, r) == IF r < Cardinality(S) THEN S ELSE {}

\* ------------------------------------------------------------- tile graphs
PX == <<Unit, 0, 0>>
PY == <<0, Unit, 0>>
PZ == <<0, 0, Unit>>
NX == <<-Unit, 0, 0>>
NY == <<0, -Unit, 0>>
NZ == <<0, 0, -Unit>>

\* ParticleTile { index, adjacent, normal }
Tile(i, adj, n) == [index |-> i, adjacent |-> adj, normal |-> n]

\* six tiles in a ring, each adjacent to exactly its two ring neighbours
Ring6 == [name |-> "Ring6",
          tiles |-> <<Tile(0, <<5, 1>>, PX), Tile(1, <<0, 2>>, PY), Tile(2, <<1, 3>>, PZ),
                      Tile(3, <<2, 4>>, NX), Tile(4, <<3, 5>>, NY), Tile(5, <<4, 0>>, NZ)>>]
\* four tiles in a row as ParticleSphere::from_config lists them: the faces around a
\* face's vertices include the face itself, sorted and deduplicated
Row4 == [name |-> "Row4",
         tiles |-> <<Tile(0, <<0, 1>>, PX), Tile(1, <<0, 1, 2>>, PY),
                     Tile(2, <<1, 2, 3>>, NX), Tile(3, <<2, 3>>, NY)>>]
\* five tiles: a centre with four neighbours around it, no tile adjacent to itself
Star5 == [name |-> "Star5",
          tiles |-> <<Tile(0, <<1, 2, 3, 4>>, PZ), Tile(1, <<0, 2, 4>>, PX), Tile(2, <<0, 1, 3>>, PY),
                      Tile(3, <<0, 2, 4>>, NX), Tile(4, <<0, 1, 3>>, NY)>>]

\* ------------------------------------------------------------- configuration
\* TectonicsConfiguration
Configuration(goal, mpf, mtf, cr, minsize, dt, iters) ==
    [plate_goal |-> goal, major_plate_fraction |-> mpf, major_tile_fraction |-> mtf,
     continental_rate |-> cr, min_plate_size |-> minsize,
     spring_constant |-> Unit, dampener_coefficient |-> Unit \div 2,
     plate_force_modifier |-> Unit, plate_rotation_drift_rate |-> Unit,
     timestep |-> dt, iterations |-> iters, friction_coefficient |-> Unit \div 2]

Fractions == {0, Unit \div 2, Unit}
BadFractions == {-(Unit \div 2), Unit + Unit \div 2}
PlateGoals == {1, 2, 4}
MinPlateSizes == {1, 2, 3}
Timesteps == {0, Unit}

\* configurations from_config accepts: every quota and type setting with the given
\* values of min_plate_size (the driver is told to make no step)
AssemblyConfigs(minsizes) ==
    {Configuration(g, mpf, mtf, cr, m, Unit, 0) :
        g \in PlateGoals, mpf \in Fractions, mtf \in Fractions, cr \in Fractions, m \in minsizes}
\* configurations with which the driver makes steps: plate_goal g, min_plate_size m
SteppingConfigs(g, m) ==
    {Configuration(g, Unit \div 2, Unit \div 2, Unit \div 2, m, dt, it) :
        dt \in Timesteps, it \in 0..MaxIterations}
\* configurations with one fraction outside [0, 1]
BadConfigs ==
    {Configuration(2, f, Unit \div 2, Unit \div 2, 2, Unit, 1) : f \in BadFractions}
    \cup {Configuration(2, Unit \div 2, f, Unit \div 2, 2, Unit, 1) : f \in BadFractions}
    \cup {Configuration(2, Unit \div 2, Unit \div 2, f, 2, Unit, 1) : f \in BadFractions}
\* quotas of four tiles with min_plate_size 3: on six tiles the second plate is undersized
MergingConfigs == {Configuration(3, Unit \div 2, Unit \div 2, Unit \div 2, 3, Unit, 0)}
\* more plates asked for than twice the tiles of Row4 and Star5
CrowdedConfigs ==
    {Configuration(g, Unit \div 2, Unit \div 2, Unit \div 2, 1, Unit, 0) : g \in {11, 12}}
\* the inputs of a run: a tile graph and a configuration
Inputs ==
    ({Ring6} \X (AssemblyConfigs({6}) \cup SteppingConfigs(1, 6) \cup MergingConfigs))
    \cup ({Row4, Star5} \X (AssemblyConfigs(MinPlateSizes) \cup SteppingConfigs(4, 2)
                              \cup BadConfigs \cup CrowdedConfigs))

\* ------------------------------------------------------------- soft_sphere
\* PointMass::new
PointMassNew(position, mass) ==
    [position |-> position, velocity |-> ZERO, prev_force |-> ZERO, force |-> ZERO, mass |-> mass]

\* Shape::new
ShapeNew ==
    [point_masses |-> <<>>, springs |-> <<>>, centroid |-> NAN3,
     bounding_distance |-> NaNVal, spring_map |-> <<>>]

Spring(a, b, rest, k, c) ==
    [anchor_a |-> a, anchor_b |-> b, rest_length |-> rest,
     spring_constant |-> k, damping_coefficient |-> c]

\* Shape::add_point_mass
ShapeAddPointMass(shape, point_mass) ==
    [shape EXCEPT !.spring_map = MapInsert(shape.spring_map, Len(shape.point_masses), <<>>),
                  !.point_masses = Append(shape.point_masses, point_mass)]

\* spring_map after the index of a new spring is listed under anchor
ListSpring(map, anchor, spring_index) ==
    IF anchor \in DOMAIN map
    THEN [map EXCEPT ![anchor] = Append(map[anchor], spring_index)]
    ELSE MapInsert(map, anchor, <<spring_index>>)

\* Shape::add_spring
ShapeAddSpring(shape, spring) ==
    [shape EXCEPT !.spring_map = ListSpring(ListSpring(shape.spring_map, spring.anchor_a,
                                                        Len(shape.springs)),
                                             spring.anchor_b, Len(shape.springs)),
                  !.springs = Append(shape.springs, spring)]

\* a zero_forces that clears the accumulator without keeping it as prev_force
ZeroForcesForgetting(point_masses) ==
    [i \in 1..Len(point_masses) |-> [point_masses[i] EXCEPT !.force = ZERO]]

\* Shape::zero_forces
ZeroForces(point_masses) ==
    [i \in 1..Len(point_masses) |->
        [point_masses[i] EXCEPT !.prev_force = point_masses[i].force, !.force = ZERO]]

\* the component of f in the tangent plane at position: f - f.dot(position) * position
TangentPart(f, position) == VSub(f, VScale(position, Dot(f, position)))

\* an apply_force without the early return on distance zero
SpringApplyForceUnguarded(spring, point_masses) ==
    LET point_a == point_masses[spring.anchor_a + 1]
        point_b == point_masses[spring.anchor_b + 1]
        distance == geodesic_distance(point_a.position, point_b.position)
        direction == VDivS(VSub(point_a.position, point_b.position), distance)
        relative_velocity == VSub(point_a.velocity, point_b.velocity)
        velocity_towards == Dot(relative_velocity, direction)
        force == VScale(direction,
                        F32Mul(-spring.spring_constant, distance - spring.rest_length)
                        - F32Mul(spring.damping_coefficient, velocity_towards))
        force_on_a == TangentPart(force, point_a.position)
        force_on_b == TangentPart(VNeg(force), point_b.position)
        with_a == [point_masses EXCEPT ![spring.anchor_a + 1].force = VAdd(@, force_on_a)]
    IN  [with_a EXCEPT ![spring.anchor_b + 1].force = VAdd(@, force_on_b)]

\* Spring::apply_force: the point masses after the spring has acted
SpringApplyForce(spring, point_masses) ==
    LET point_a == point_masses[spring.anchor_a + 1]
        point_b == point_masses[spring.anchor_b + 1]
        distance == geodesic_distance(point_a.position, point_b.position)
        direction == VDivS(VSub(point_a.position, point_b.position), distance)
        relative_velocity == VSub(point_a.velocity, point_b.velocity)
        velocity_towards == Dot(relative_velocity, direction)
        force == VScale(direction,
                        F32Mul(-spring.spring_constant, distance - spring.rest_length)
                        - F32Mul(spring.damping_coefficient, velocity_towards))
        force_on_a == TangentPart(force, point_a.position)
        force_on_b == TangentPart(VNeg(force), point_b.position)
        with_a == [point_masses EXCEPT ![spring.anchor_a + 1].force = VAdd(@, force_on_a)]
    IN  IF distance = 0 THEN point_masses
        ELSE [with_a EXCEPT ![spring.anchor_b + 1].force = VAdd(@, force_on_b)]

\* Shape::apply_spring_forces: the springs from..Len(springs) act in order
RECURSIVE ApplySpringsFrom(_, _, _)
ApplySpringsFrom(springs, point_masses, from) ==
    IF from > Len(springs) THEN point_masses
    ELSE ApplySpringsFrom(springs, SpringApplyForce(springs[from], point_masses), from + 1)
\* a pass that drains the spring list while it applies the springs
ApplySpringForcesDraining(shape) ==
    [shape EXCEPT !.point_masses = ApplySpringsFrom(shape.springs, shape.point_masses, 1),
                  !.springs = <<>>]
ApplySpringForces(shape) ==
    [shape EXCEPT !.point_masses = ApplySpringsFrom(shape.springs, shape.point_masses, 1)]

\* v / mass and v * mass, the mass being a whole number
VDivMass(v, mass) ==
    IF IsNaN3(v) THEN NAN3 ELSE <<Div(v[1], mass), Div(v[2], mass), Div(v[3], mass)>>
VMulMass(v, mass) ==
    IF IsNaN3(v) THEN NAN3 ELSE <<v[1] * mass, v[2] * mass, v[3] * mass>>

\* Quat::from_axis_angle(axis, angle) * v on the lattice: the angle is rounded to
\* whole quarter turns (one radian counts as a quarter turn); the sine and cosine of
\* an infinite angle are NaN
Rotate(axis, angle, v) ==
    LET k == RoundDiv(angle, Unit) % 4
        along == VScale(axis, Dot(axis, v))
    IN  IF ~IsFinite(angle) \/ IsNaN3(axis) THEN NAN3
        ELSE IF k = 0 THEN v
        ELSE IF k = 1 THEN VAdd(Cross(axis, v), along)
        ELSE IF k = 2 THEN VSub(VAdd(along, along), v)
        ELSE VAdd(VNeg(Cross(axis, v)), along)

\* an integration whose velocity step does not scale with the timestep
UpdatePointMassFixedStep(point_mass, timestep) ==
    LET old_acc == VDivMass(point_mass.prev_force, point_mass.mass)
        new_acc == VDivMass(point_mass.force, point_mass.mass)
        displacement == VAdd(VScale(point_mass.velocity, timestep),
                             VScale(VScale(old_acc, Unit \div 2), F32Mul(timestep, timestep)))
        tangent_disp == TangentPart(displacement, point_mass.position)
        angle == Length(tangent_disp)
        axis == Normalize(Cross(point_mass.position, tangent_disp))
        position == IF F32Gt(angle, 0)
                    THEN Normalize(Rotate(axis, angle, point_mass.position))
                    ELSE point_mass.position
        velocity == VAdd(point_mass.velocity, VScale(VAdd(old_acc, new_acc), Unit \div 2))
    IN  [point_mass EXCEPT !.position = position, !.velocity = velocity]

\* Shape::update, lines 72-89, for one point mass
UpdatePointMass(point_mass, timestep) ==
    LET old_acc == VDivMass(point_mass.prev_force, point_mass.mass)
        new_acc == VDivMass(point_mass.force, point_mass.mass)
        displacement == VAdd(VScale(point_mass.velocity, timestep),
                             VScale(VScale(old_acc, Unit \div 2), F32Mul(timestep, timestep)))
        tangent_disp == TangentPart(displacement, point_mass.position)
        angle == Length(tangent_disp)
        axis == Normalize(Cross(point_mass.position, tangent_disp))
        position == IF F32Gt(angle, 0)
                    THEN Normalize(Rotate(axis, angle, point_mass.position))
                    ELSE point_mass.position
        velocity == VAdd(point_mass.velocity,
                         VScale(VScale(VAdd(old_acc, new_acc), Unit \div 2), timestep))
    IN  [point_mass EXCEPT !.position = position, !.velocity = velocity]

\* Shape::update_centroid
RECURSIVE CentroidFrom(_, _)
CentroidFrom(point_masses, from) ==
    IF from > Len(point_masses) THEN ZERO
    ELSE VAdd(VDivS(point_masses[from].position, AsF32(Len(point_masses))),
              CentroidFrom(point_masses, from + 1))
UpdateCentroid(shape) == [shape EXCEPT !.centroid = CentroidFrom(shape.point_masses, 1)]

\* the angle between position and the shape's centroid
CentroidAngle(shape, position) == Acos(Clamp(Dot(position, shape.centroid)))

\* Shape::update_bounding_distance (of a shape with a point mass)
UpdateBoundingDistance(shape) ==
    [shape EXCEPT !.bounding_distance =
        CHOOSE d \in {CentroidAngle(shape, shape.point_masses[i].position) :
                        i \in 1..Len(shape.point_masses)} :
            \A i \in 1..Len(shape.point_masses) :
                CentroidAngle(shape, shape.point_masses[i].position) <= d]

\* Shape::update_bounding_distance fails: max_by finds no element in an empty shape,
\* and a.partial_cmp(b).unwrap() fails on a NaN angle once two angles are compared
UpdateBoundingDistanceFails(shape) ==
    \/ shape.point_masses = <<>>
    \/ /\ Len(shape.point_masses) >= 2
       /\ \E i \in 1..Len(shape.point_masses) :
            CentroidAngle(shape, shape.point_masses[i].position) = NaNVal

\* Shape::within_bounding_spherical_cap
WithinBoundingSphericalCap(shape, position) ==
    F32Lt(CentroidAngle(shape, position), shape.bounding_distance)

\* Shape::update, lines 72-91: the shape when update_bounding_distance is called
ShapeMoved(shape, timestep) ==
    LET moved == [i \in 1..Len(shape.point_masses) |->
                    UpdatePointMass(shape.point_masses[i], timestep)]
    IN  UpdateCentroid([shape EXCEPT !.point_masses = ZeroForces(moved)])
\* Shape::update
ShapeUpdate(shape, timestep) == UpdateBoundingDistance(ShapeMoved(shape, timestep))

\* Shape::apply_external_force with the closure of Tectonics::simulate, lines 287-300
ExternalForce(plate, cfg, point_mass) ==
    LET plate_force == VMulMass(VScale(Cross(plate.axis_of_rotation, point_mass.position),
                                       cfg.plate_force_modifier), point_mass.mass)
        friction_force == IF Length(point_mass.velocity) > 0
                          THEN VScale(VMulMass(VNeg(point_mass.velocity), point_mass.mass),
                                      cfg.friction_coefficient)
                          ELSE ZERO
    IN  VAdd(plate_force, friction_force)
\* an apply_external_force that assigns the closure's value to the accumulator
ApplyExternalForceOverwriting(plate, cfg) ==
    [plate EXCEPT !.shape.point_masses =
        [i \in 1..Len(plate.shape.point_masses) |->
            [plate.shape.point_masses[i] EXCEPT
                !.force = ExternalForce(plate, cfg, plate.shape.point_masses[i])]]]
ApplyExternalForce(plate, cfg) ==
    [plate EXCEPT !.shape.point_masses =
        [i \in 1..Len(plate.shape.point_masses) |->
            [plate.shape.point_masses[i] EXCEPT
                !.force = VAdd(@, ExternalForce(plate, cfg, plate.shape.point_masses[i]))]]]

\* iter_point_masses_with_springs and par_iter_point_masses_with_springs, lines 117-150:
\* consuming the iterator looks point mass i up in spring_map and fails when it is absent
IterCompletes(shape) ==
    \A i \in 0..(Len(shape.point_masses) - 1) : i \in DOMAIN shape.spring_map
\* the springs the iterator yields with point mass i
IterSprings(shape, i) ==
    [k \in 1..Len(shape.spring_map[i]) |-> shape.springs[shape.spring_map[i][k] + 1]]

\* rng.random_range(-1.0..1.0): the seeds considered are those whose draws of this
\* kind give, at draw number pos, the value FloatTable[pos mod 7]
FloatTable == <<-Unit, Unit \div 2, Unit \div 4, -(Unit \div 2), (9 * Unit) \div 10,
                -(Unit \div 4), Unit \div 3>>
FloatDraw(pos) == FloatTable[(pos % Len(FloatTable)) + 1]

\* ------------------------------------------------------------- plates
\* mass of a particle of a plate of the given type
ParticleMass(plate_type) ==
    IF plate_type = "Continental" THEN CONTINENTAL_PARTICLE_MASS ELSE OCEANIC_PARTICLE_MASS

\* Plate::random with the generator at draw number pos: three draws for the colour
\* (cosmetic, not kept), three for the axis and two for the drift direction
PlateRandom(plate_type, pos) ==
    [plate_type |-> plate_type,
     axis_of_rotation |-> Normalize(<<FloatDraw(pos + 3), FloatDraw(pos + 4), FloatDraw(pos + 5)>>),
     drift_direction |-> Normalize2(<<FloatDraw(pos + 6), FloatDraw(pos + 7)>>),
     shape |-> ShapeNew]

\* rotation of v by k quarter turns about the x axis, and about the y axis
RotX(angle, v) == Rotate(PX, angle, v)
RotY(angle, v) == Rotate(PY, angle, v)

\* Tectonics::simulate, lines 308-319: the drift of one plate, with the generator at
\* draw number pos (two draws)
Drift(plate, cfg, pos) ==
    LET step == <<F32Mul(FloatDraw(pos), cfg.plate_rotation_drift_rate),
                  F32Mul(FloatDraw(pos + 1), cfg.plate_rotation_drift_rate)>>
        drift_direction == Normalize2(V2Add(plate.drift_direction, V2Scale(step, cfg.timestep)))
        \* Quat::from_euler(EulerRot::XYZ, a, b, 0.) * v turns v about y by b, then about x by a
        a == F32Mul(drift_direction[1], cfg.plate_rotation_drift_rate)
        b == F32Mul(drift_direction[2], cfg.plate_rotation_drift_rate)
    IN  [plate EXCEPT !.drift_direction = drift_direction,
                      !.axis_of_rotation = RotX(a, RotY(b, plate.axis_of_rotation))]

\* PlateBuilder::new
\* (origin is a history field: the tile each point mass was created from)
PlateBuilderNew(plate) == [plate |-> plate, tile_to_point_mass |-> <<>>, origin |-> <<>>]

\* the springs from point mass new_index to the masses of the tiles of adj[from..]
\* that the map holds, in the order of the adjacency list
RECURSIVE SpringsTo(_, _, _, _, _, _)
SpringsTo(point_masses, map, new_index, adj, from, cfg) ==
    IF from > Len(adj) THEN <<>>
    ELSE IF adj[from] \in DOMAIN map
    THEN <<Spring(new_index, map[adj[from]],
                  geodesic_distance(point_masses[new_index + 1].position,
                                    point_masses[map[adj[from]] + 1].position),
                  cfg.spring_constant, cfg.dampener_coefficient)>>
         \o SpringsTo(point_masses, map, new_index, adj, from + 1, cfg)
    ELSE SpringsTo(point_masses, map, new_index, adj, from + 1, cfg)

\* PlateBuilder::add_point_mass
AddPointMass(b, tile_index, point_mass, sphere, cfg) ==
    LET point_mass_index == Len(b.plate.shape.point_masses)
        pms == Append(b.plate.shape.point_masses, point_mass)
        map == MapInsert(b.tile_to_point_mass, tile_index, point_mass_index)
        new == SpringsTo(pms, map, point_mass_index, sphere.tiles[tile_index + 1].adjacent, 1, cfg)
    IN  [plate |-> [b.plate EXCEPT !.shape.point_masses = pms,
                                   !.shape.springs = b.plate.shape.springs \o new],
         tile_to_point_mass |-> map,
         origin |-> Append(b.origin, tile_index)]

\* ------------------------------------------------------------- state
VARIABLES
    particle_sphere,    \* the tile graph handed to from_config
    config,             \* TectonicsConfiguration
    pc,                 \* where the program is
    panic,              \* the message of the panic that stopped the program, or ""
    rng,                \* the StdRng: draws made so far, and the log of their values
    twin,               \* a second run from the same seed: phase and the first run's result
    generated_majors, generated_minors,
    available_tiles,    \* HashSet<usize> of unclaimed tiles
    adjacent_tiles,     \* Vec<usize>, the frontier
    plate_builders,     \* Vec<PlateBuilder>, the accepted plates
    builder,            \* the plate under construction
    tiles_to_take,      \* the quota of the plate under construction
    taken,              \* iterations of the growth loop done for it
    merges,             \* history: how often the merge branch was entered
    merged_types,       \* history: <<type of the merged plate, type of its target>>
    plates,             \* Tectonics::plates once from_config has returned
    tile_of,            \* history: per returned plate, the tile of each point mass
    cursor,             \* inside simulate: the position (1-based) of the plate at work
    tectonics_iteration,\* TectonicsIteration
    state, next_state,  \* State<SimulationState> and NextState<SimulationState>
    pending,            \* the systems of the Update schedule still to run this frame
    step                \* history: the plates and the draw count at the entry of the
                        \* simulate call at work (or the last one), and its calls so far

in_vars == <<particle_sphere, config, twin>>
asm_vars == <<generated_majors, generated_minors, available_tiles, adjacent_tiles,
              plate_builders, builder, tiles_to_take, taken, merges, merged_types>>
out_vars == <<plates, tile_of>>
drv_vars == <<cursor, tectonics_iteration, state, next_state, pending, step>>
vars == <<in_vars, pc, panic, rng, asm_vars, out_vars, drv_vars>>

tile_count == Len(particle_sphere.tiles)

NoPlate == [plate_type |-> "None", axis_of_rotation |-> ZERO, drift_direction |-> <<0, 0>>,
            shape |-> ShapeNew]
NoBuilder == PlateBuilderNew(NoPlate)
\* no simulate call has been entered
NoStep == [start |-> <<>>, draws |-> 0, calls |-> <<>>]

\* ------------------------------------------------------------- random source
\* outcomes of random_range(0..n) that the seed allows after a draw of the same
\* position gave log entry e = <<m, k>> (k of 0..m): the same k for the same range,
\* otherwise the k' whose share of the generator's word overlaps that of k
ConsistentIndex(e, n) ==
    IF e[1] = n THEN {e[2]}
    ELSE IF e[1] <= 0 THEN 0..(n - 1)
    ELSE {k \in 0..(n - 1) : e[2] * n < (k + 1) * e[1] /\ k * e[1] < (e[2] + 1) * n}

\* the values draw number pos (0-based) of this run can give for random_range(0..n)
IndexDraws(pos, n) ==
    IF twin.phase = "second" /\ pos < Len(rng.log)
    THEN ConsistentIndex(rng.log[pos + 1], n)
    ELSE 0..(n - 1)

IndexEntry(n, k) == <<n, k>>
\* a draw of a float (a colour channel, an axis or drift component)
FloatEntry == <<0, 0>>

\* the generator after the draws `entries`
RngAfter(entries) ==
    [draws |-> rng.draws + Len(entries),
     log |-> IF twin.phase = "first" THEN rng.log \o entries ELSE rng.log]

\* ------------------------------------------------------------- from_config
\* lines 115-120: the tile quotas of major and minor plates
major_tile_count ==
    AsUsize(F32Div(F32Div(F32Mul(AsF32(tile_count), config.major_tile_fraction),
                          F32Div(AsF32(config.plate_goal), 2 * Unit)),
                   config.major_plate_fraction))
minor_tile_count ==
    AsUsize(F32Div(F32Div(F32Mul(AsF32(tile_count), Unit - config.major_tile_fraction),
                          F32Div(AsF32(config.plate_goal), 2 * Unit)),
                   Unit - config.major_plate_fraction))

\* a from_config without the three assertions
ConfigAcceptedUnchecked == TRUE

\* lines 104-106
ConfigAccepted ==
    /\ InUnitRange(config.major_tile_fraction)
    /\ InUnitRange(config.major_plate_fraction)
    /\ InUnitRange(config.continental_rate)

\* Vec::swap_remove(i): the element at i, and the Vec with the last element moved to i
SwapRemoved(v, i) == v[i + 1]
SwapRemove(v, i) ==
    IF i + 1 = Len(v) THEN SubSeq(v, 1, Len(v) - 1)
    ELSE [SubSeq(v, 1, Len(v) - 1) EXCEPT ![i + 1] = v[Len(v)]]

\* a frontier extension that pushes the unclaimed neighbours without taking them out
\* of the unclaimed set
RECURSIVE ExtendFrontierKeepingUnclaimed(_, _, _, _)
ExtendFrontierKeepingUnclaimed(frontier, available, adj, from) ==
    IF from > Len(adj) THEN <<frontier, available>>
    ELSE IF adj[from] \in available
    THEN ExtendFrontierKeepingUnclaimed(Append(frontier, adj[from]), available, adj, from + 1)
    ELSE ExtendFrontierKeepingUnclaimed(frontier, available, adj, from + 1)

\* lines 165-170: adjacent_tiles.extend(adjacent.filter(|i| available_tiles.remove(i))):
\* the pair <<frontier, available>> after visiting adj[from..]
RECURSIVE ExtendFrontier(_, _, _, _)
ExtendFrontier(frontier, available, adj, from) ==
    IF from > Len(adj) THEN <<frontier, available>>
    ELSE IF adj[from] \in available
    THEN ExtendFrontier(Append(frontier, adj[from]), available \ {adj[from]}, adj, from + 1)
    ELSE ExtendFrontier(frontier, available, adj, from + 1)

\* lines 128-134: the type of the next plate
NextPlateType ==
    IF F32Lt(F32Div(AsF32(tile_count - Cardinality(available_tiles)), AsF32(tile_count)),
             config.continental_rate)
    THEN "Continental" ELSE "Oceanic"

\* a ratio test that takes the ratio to be zero while no minor plate exists
TakesMinorQuotaWithoutInfinity ==
    /\ generated_minors > 0
    /\ F32Gt(F32Div(AsF32(generated_majors), AsF32(generated_minors)),
             config.major_plate_fraction)

\* lines 136-137: whether the next plate takes the minor quota
TakesMinorQuota ==
    F32Gt(F32Div(AsF32(generated_majors), AsF32(generated_minors)), config.major_plate_fraction)

\* lines 179-188: the distance from the nearest point mass of pb to position p
RECURSIVE MinDistanceFrom(_, _, _)
MinDistanceFrom(pms, p, from) ==
    LET d == geodesic_distance(pms[from].position, p)
    IN  IF from = Len(pms) THEN d
        ELSE LET rest == MinDistanceFrom(pms, p, from + 1)
             IN  IF rest < d THEN rest ELSE d
MinDistance(pb, p) == MinDistanceFrom(pb.plate.shape.point_masses, p, 1)

\* a search that keeps the last of equally near plates
ClosestPlateBuilderLast(pbs, b) ==
    LET p0 == b.plate.shape.point_masses[1].position
    IN  CHOOSE i \in 1..Len(pbs) :
            /\ \A j \in 1..Len(pbs) : MinDistance(pbs[i], p0) <= MinDistance(pbs[j], p0)
            /\ \A j \in (i + 1)..Len(pbs) : MinDistance(pbs[j], p0) > MinDistance(pbs[i], p0)

\* lines 176-203: Iterator::min_by keeps the first of equally near plates;
\* the position (1-based) in pbs of the plate nearest to b's first point mass
ClosestPlateBuilder(pbs, b) ==
    LET p0 == b.plate.shape.point_masses[1].position
    IN  CHOOSE i \in 1..Len(pbs) :
            /\ \A j \in 1..Len(pbs) : MinDistance(pbs[i], p0) <= MinDistance(pbs[j], p0)
            /\ \A j \in 1..(i - 1) : MinDistance(pbs[j], p0) > MinDistance(pbs[i], p0)

\* a merge that anchors the new springs at the index the mass had in the undersized
\* plate, which belongs to another point-mass list
MergeOneSourceAnchors(target, b, tile_index, sphere, cfg) ==
    LET point_mass == b.plate.shape.point_masses[b.tile_to_point_mass[tile_index] + 1]
        new_index == Len(target.plate.shape.point_masses)
        pms == Append(target.plate.shape.point_masses,
                      [position |-> point_mass.position,
                       mass |-> ParticleMass(target.plate.plate_type),
                       velocity |-> ZERO, force |-> ZERO, prev_force |-> ZERO])
        map == MapInsert(target.tile_to_point_mass, tile_index, new_index)
        new == SpringsTo(pms, map, b.tile_to_point_mass[tile_index],
                         sphere.tiles[tile_index + 1].adjacent, 1, cfg)
    IN  [plate |-> [target.plate EXCEPT !.shape.point_masses = pms,
                                        !.shape.springs = target.plate.shape.springs \o new],
         tile_to_point_mass |-> map,
         origin |-> Append(target.origin, tile_index)]

\* a merge that loses the point mass instead of appending it to the target
MergeOneLosingMass(target, b, tile_index, sphere, cfg) == target

\* a merge that moves the point mass into the target with the mass it had
MergeOneKeepingMass(target, b, tile_index, sphere, cfg) ==
    LET point_mass == b.plate.shape.point_masses[b.tile_to_point_mass[tile_index] + 1]
        new_index == Len(target.plate.shape.point_masses)
        pms == Append(target.plate.shape.point_masses,
                      [position |-> point_mass.position,
                       mass |-> point_mass.mass,
                       velocity |-> ZERO, force |-> ZERO, prev_force |-> ZERO])
        map == MapInsert(target.tile_to_point_mass, tile_index, new_index)
        new == SpringsTo(pms, map, new_index, sphere.tiles[tile_index + 1].adjacent, 1, cfg)
    IN  [plate |-> [target.plate EXCEPT !.shape.point_masses = pms,
                                        !.shape.springs = target.plate.shape.springs \o new],
         tile_to_point_mass |-> map,
         origin |-> Append(target.origin, tile_index)]

\* lines 206-249, for one entry (tile_index, pm_index) of builder.tile_to_point_mass
MergeOne(target, b, tile_index, sphere, cfg) ==
    LET point_mass == b.plate.shape.point_masses[b.tile_to_point_mass[tile_index] + 1]
        new_index == Len(target.plate.shape.point_masses)
        pms == Append(target.plate.shape.point_masses,
                      [position |-> point_mass.position,
                       mass |-> ParticleMass(target.plate.plate_type),
                       velocity |-> ZERO, force |-> ZERO, prev_force |-> ZERO])
        map == MapInsert(target.tile_to_point_mass, tile_index, new_index)
        new == SpringsTo(pms, map, new_index, sphere.tiles[tile_index + 1].adjacent, 1, cfg)
    IN  [plate |-> [target.plate EXCEPT !.shape.point_masses = pms,
                                        !.shape.springs = target.plate.shape.springs \o new],
         tile_to_point_mass |-> map,
         origin |-> Append(target.origin, tile_index)]

\* lines 205-250: the target after merging b's tiles in the order `order`
RECURSIVE MergeInto(_, _, _, _, _, _)
MergeInto(target, b, order, from, sphere, cfg) ==
    IF from > Len(order) THEN target
    ELSE MergeInto(MergeOne(target, b, order[from], sphere, cfg), b, order, from + 1, sphere, cfg)

\* lines 264-267
point_mass_count ==
    SumSeq([i \in 1..Len(plate_builders) |-> Len(plate_builders[i].plate.shape.point_masses)])

\* ------------------------------------------------------------- actions
\* the pc values inside from_config
InFromConfig == pc \in {"setup", "loop", "grow", "reseed"}
\* from_config has returned a Tectonics
Returned == ~InFromConfig

UpdateSystems == {"interpolate_vertices", "simulate_system"}

InitRun ==
    /\ pc = "setup" /\ panic = ""
    /\ rng = [draws |-> 0, log |-> <<>>]
    /\ generated_majors = 0 /\ generated_minors = 0
    /\ available_tiles = {} /\ adjacent_tiles = <<>>
    /\ plate_builders = <<>> /\ builder = NoBuilder
    /\ tiles_to_take = 0 /\ taken = 0 /\ merges = 0 /\ merged_types = {}
    /\ plates = <<>> /\ tile_of = <<>>
    /\ cursor = 0 /\ tectonics_iteration = 0
    /\ state = "Tectonics" /\ next_state = "" /\ pending = UpdateSystems
    /\ step = NoStep

\* the application enters SimulationState::Tectonics; setup is about to call from_config
Init ==
    /\ \E input \in Inputs : particle_sphere = input[1] /\ config = input[2]
    /\ twin = [phase |-> "off", first |-> <<>>]
    /\ InitRun

\* lines 104-106: a fraction outside [0, 1] fails an assertion
FromConfigRejects ==
    /\ pc = "setup" /\ panic = ""
    /\ ~ConfigAccepted
    /\ panic' = "assertion failed: (0.0..=1.0).contains"
    /\ UNCHANGED <<in_vars, pc, rng, asm_vars, out_vars, drv_vars>>

\* lines 104-125: the assertions pass; the first starting tile is drawn
FromConfigEnter ==
    /\ pc = "setup" /\ panic = ""
    /\ ConfigAccepted
    /\ \E starting_tile \in IndexDraws(rng.draws, tile_count) :
        /\ rng' = RngAfter(<<IndexEntry(tile_count, starting_tile)>>)
        /\ available_tiles' = (0..(tile_count - 1)) \ {starting_tile}
        /\ adjacent_tiles' = <<starting_tile>>
    /\ plate_builders' = <<>>
    /\ generated_majors' = 0 /\ generated_minors' = 0
    /\ pc' = "loop"
    /\ UNCHANGED <<in_vars, panic, builder, tiles_to_take, taken, merges, merged_types,
                   out_vars, drv_vars>>

\* lines 127-144: the loop goes on; a new plate is created and its quota chosen
StartPlate ==
    /\ pc = "loop" /\ panic = ""
    /\ Cardinality(available_tiles) > 0 \/ Len(adjacent_tiles) > 0
    /\ generated_majors + generated_minors < MaxGenerated
    /\ rng' = RngAfter(<<FloatEntry, FloatEntry, FloatEntry, FloatEntry, FloatEntry,
                         FloatEntry, FloatEntry, FloatEntry>>)
    /\ builder' = PlateBuilderNew(PlateRandom(NextPlateType, rng.draws))
    /\ IF TakesMinorQuota
       THEN /\ generated_minors' = generated_minors + 1
            /\ tiles_to_take' = minor_tile_count
            /\ UNCHANGED generated_majors
       ELSE /\ generated_majors' = generated_majors + 1
            /\ tiles_to_take' = major_tile_count
            /\ UNCHANGED generated_minors
    /\ taken' = 0
    /\ pc' = "grow"
    /\ UNCHANGED <<in_vars, panic, available_tiles, adjacent_tiles, plate_builders, merges, merged_types,
                   out_vars, drv_vars>>

\* lines 147-171: one iteration of the growth loop
GrowStep ==
    /\ pc = "grow" /\ panic = ""
    /\ taken < tiles_to_take
    /\ adjacent_tiles # <<>>
    /\ \E r \in IndexDraws(rng.draws, Len(adjacent_tiles)) :
        LET random_adjacent_tile == SwapRemoved(adjacent_tiles, r)
            mass == ParticleMass(builder.plate.plate_type)
            point_mass == PointMassNew(particle_sphere.tiles[random_adjacent_tile + 1].normal, mass)
            ext == ExtendFrontier(SwapRemove(adjacent_tiles, r), available_tiles,
                                  particle_sphere.tiles[random_adjacent_tile + 1].adjacent, 1)
        IN  /\ rng' = RngAfter(<<IndexEntry(Len(adjacent_tiles), r)>>)
            /\ builder' = AddPointMass(builder, random_adjacent_tile, point_mass,
                                       particle_sphere, config)
            /\ adjacent_tiles' = ext[1]
            /\ available_tiles' = ext[2]
    /\ taken' = taken + 1
    /\ UNCHANGED <<in_vars, pc, panic, generated_majors, generated_minors, plate_builders,
                   tiles_to_take, merges, merged_types, out_vars, drv_vars>>

\* the growth loop is over: the quota is used up or the frontier is empty
GrowDone == pc = "grow" /\ panic = "" /\ (taken >= tiles_to_take \/ adjacent_tiles = <<>>)

\* a loop that keeps every plate that took a tile, whatever its size
AcceptPlateOfAnySize ==
    /\ GrowDone
    /\ builder.plate.shape.point_masses # <<>>
    /\ plate_builders' = Append(plate_builders, builder)
    /\ builder' = NoBuilder
    /\ pc' = "reseed"
    /\ UNCHANGED <<in_vars, panic, rng, generated_majors, generated_minors, available_tiles,
                   adjacent_tiles, tiles_to_take, taken, merges, merged_types, out_vars, drv_vars>>

\* lines 172-173: the plate is large enough and is kept
AcceptPlate ==
    /\ GrowDone
    /\ Len(builder.plate.shape.point_masses) >= config.min_plate_size
    /\ plate_builders' = Append(plate_builders, builder)
    /\ builder' = NoBuilder
    /\ pc' = "reseed"
    /\ UNCHANGED <<in_vars, panic, rng, generated_majors, generated_minors, available_tiles,
                   adjacent_tiles, tiles_to_take, taken, merges, merged_types, out_vars, drv_vars>>

\* lines 174-251: the plate is too small and is merged into the closest plate, its
\* masses visited in the iteration order of its tile_to_point_mass map
MergePlate ==
    /\ GrowDone
    /\ Len(builder.plate.shape.point_masses) < config.min_plate_size
    /\ builder.plate.shape.point_masses # <<>>
    /\ plate_builders # <<>>
    /\ \E order \in HashOrders(DOMAIN builder.tile_to_point_mass) :
        LET c == ClosestPlateBuilder(plate_builders, builder)
        IN  plate_builders' = [plate_builders EXCEPT
                ![c] = MergeInto(plate_builders[c], builder, order, 1, particle_sphere, config)]
    /\ merges' = merges + 1
    /\ merged_types' = merged_types \cup
            {<<builder.plate.plate_type,
               plate_builders[ClosestPlateBuilder(plate_builders, builder)].plate.plate_type>>}
    /\ builder' = NoBuilder
    /\ pc' = "reseed"
    /\ UNCHANGED <<in_vars, panic, rng, generated_majors, generated_minors, available_tiles,
                   adjacent_tiles, tiles_to_take, taken, out_vars, drv_vars>>

\* a loop that drops an undersized plate when there is no plate to merge it into
DropPlateWithoutTarget ==
    /\ GrowDone
    /\ Len(builder.plate.shape.point_masses) < config.min_plate_size
    /\ builder.plate.shape.point_masses # <<>>
    /\ plate_builders = <<>>
    /\ merges' = merges + 1
    /\ builder' = NoBuilder
    /\ pc' = "reseed"
    /\ UNCHANGED <<in_vars, panic, rng, generated_majors, generated_minors, available_tiles,
                   adjacent_tiles, plate_builders, tiles_to_take, taken, merged_types,
                   out_vars, drv_vars>>

\* lines 176-203: the plate is too small and there is no plate to merge it into
MergeWithoutTarget ==
    /\ GrowDone
    /\ Len(builder.plate.shape.point_masses) < config.min_plate_size
    /\ builder.plate.shape.point_masses # <<>>
    /\ plate_builders = <<>>
    /\ merges' = merges + 1
    /\ panic' = "Failed to find closest plate when plate was too small"
    /\ UNCHANGED <<in_vars, pc, rng, generated_majors, generated_minors, available_tiles,
                   adjacent_tiles, plate_builders, builder, tiles_to_take, taken,
                   merged_types, out_vars, drv_vars>>

\* lines 172-174: the plate took no tile and is below min_plate_size: it is dropped
DropEmptyPlate ==
    /\ GrowDone
    /\ Len(builder.plate.shape.point_masses) < config.min_plate_size
    /\ builder.plate.shape.point_masses = <<>>
    /\ builder' = NoBuilder
    /\ pc' = "reseed"
    /\ UNCHANGED <<in_vars, panic, rng, generated_majors, generated_minors, available_tiles,
                   adjacent_tiles, plate_builders, tiles_to_take, taken, merges, merged_types, out_vars,
                   drv_vars>>

\* a loop that hands a non-empty frontier over to the next plate and draws a new
\* starting tile only when the frontier is empty
ReseedKeepingFrontier ==
    /\ pc = "reseed" /\ panic = ""
    /\ IF adjacent_tiles # <<>>
       THEN UNCHANGED <<available_tiles, adjacent_tiles, rng>>
       ELSE IF Cardinality(available_tiles) > 0
       THEN \E r \in IndexDraws(rng.draws, Cardinality(available_tiles)) :
            \E starting_tile \in IterationNth(available_tiles, r) :
                /\ rng' = RngAfter(<<IndexEntry(Cardinality(available_tiles), r)>>)
                /\ available_tiles' = available_tiles \ {starting_tile}
                /\ adjacent_tiles' = <<starting_tile>>
       ELSE UNCHANGED <<available_tiles, adjacent_tiles, rng>>
    /\ pc' = "loop"
    /\ UNCHANGED <<in_vars, panic, generated_majors, generated_minors, plate_builders, builder,
                   tiles_to_take, taken, merges, merged_types, out_vars, drv_vars>>

\* lines 253-261: the frontier goes back to the unclaimed set; a new starting tile is
\* the element at a random index of the set's iteration order, which may be any element
Reseed ==
    /\ pc = "reseed" /\ panic = ""
    /\ LET returned == available_tiles \cup Range(adjacent_tiles)
       IN  IF Cardinality(returned) > 0
           THEN \E r \in IndexDraws(rng.draws, Cardinality(returned)) :
                \E starting_tile \in IterationNth(returned, r) :
                    /\ rng' = RngAfter(<<IndexEntry(Cardinality(returned), r)>>)
                    /\ available_tiles' = returned \ {starting_tile}
                    /\ adjacent_tiles' = <<starting_tile>>
           ELSE /\ available_tiles' = returned
                /\ adjacent_tiles' = <<>>
                /\ UNCHANGED rng
    /\ pc' = "loop"
    /\ UNCHANGED <<in_vars, panic, generated_majors, generated_minors, plate_builders, builder,
                   tiles_to_take, taken, merges, merged_types, out_vars, drv_vars>>

\* lines 127, 264-280: the loop ends; if the final assertion holds, Tectonics is
\* returned to setup, which inserts it as a resource
FromConfigReturn ==
    /\ pc = "loop" /\ panic = ""
    /\ ~(Cardinality(available_tiles) > 0 \/ Len(adjacent_tiles) > 0)
    /\ IF point_mass_count = tile_count
       THEN /\ plates' = [i \in 1..Len(plate_builders) |-> plate_builders[i].plate]
            /\ tile_of' = [i \in 1..Len(plate_builders) |-> plate_builders[i].origin]
            /\ plate_builders' = <<>>
            /\ pc' = "update"
            /\ UNCHANGED panic
       ELSE /\ panic' = "Point mass count not same as Particle Tile count!"
            /\ UNCHANGED <<plates, tile_of, plate_builders, pc>>
    /\ UNCHANGED <<in_vars, rng, generated_majors, generated_minors, available_tiles,
                   adjacent_tiles, builder, tiles_to_take, taken, merges, merged_types, drv_vars>>

\* ------------------------------------------------------------- the driver
\* the history after the call `name` on the plate at the cursor
Called(name) == [step EXCEPT !.calls = Append(@, <<name, cursor>>)]

\* interpolate_vertices, lines 16-45: every 40th iteration it consumes
\* par_iter_point_masses_with_springs of every plate
InterpolateVertices ==
    /\ pc = "update" /\ panic = ""
    /\ state = "Tectonics"
    /\ "interpolate_vertices" \in pending
    /\ pending' = pending \ {"interpolate_vertices"}
    /\ IF tectonics_iteration % 40 = 0 /\ \E i \in 1..Len(plates) : ~IterCompletes(plates[i].shape)
       THEN panic' = "Tried to get springs for point mass not in spring_map"
       ELSE UNCHANGED panic
    /\ UNCHANGED <<in_vars, pc, rng, asm_vars, out_vars, cursor, tectonics_iteration, state,
                   next_state, step>>

\* a simulate_system that still steps when the counter has reached config.iterations
SimulateSystemStepsOnceMore ==
    /\ pc = "update" /\ panic = ""
    /\ state = "Tectonics"
    /\ "simulate_system" \in pending
    /\ tectonics_iteration <= config.iterations
    /\ pending' = pending \ {"simulate_system"}
    /\ cursor' = 1
    /\ pc' = "apply_external_force"
    /\ step' = [start |-> plates, draws |-> rng.draws, calls |-> <<>>]
    /\ UNCHANGED <<in_vars, panic, rng, asm_vars, out_vars, tectonics_iteration, state,
                   next_state>>

\* simulate_system, lines 97-99: another step is due and Tectonics::simulate is entered
SimulateSystemSteps ==
    /\ pc = "update" /\ panic = ""
    /\ state = "Tectonics"
    /\ "simulate_system" \in pending
    /\ tectonics_iteration < config.iterations
    /\ pending' = pending \ {"simulate_system"}
    /\ cursor' = 1
    /\ pc' = "apply_external_force"
    /\ step' = [start |-> plates, draws |-> rng.draws, calls |-> <<>>]
    /\ UNCHANGED <<in_vars, panic, rng, asm_vars, out_vars, tectonics_iteration, state,
                   next_state>>

\* simulate_system, lines 100-103: the iterations are done, Erosion is requested
SimulateSystemEnds ==
    /\ pc = "update" /\ panic = ""
    /\ state = "Tectonics"
    /\ "simulate_system" \in pending
    /\ ~(tectonics_iteration < config.iterations)
    /\ pending' = pending \ {"simulate_system"}
    /\ next_state' = "Erosion"
    /\ UNCHANGED <<in_vars, pc, panic, rng, asm_vars, out_vars, cursor, tectonics_iteration,
                   state, step>>

\* Tectonics::simulate, lines 286-300: apply_external_force on the plate at the cursor
SimulateExternalForce ==
    /\ pc = "apply_external_force" /\ panic = ""
    /\ IF cursor <= Len(plates)
       THEN /\ plates' = [plates EXCEPT ![cursor] = ApplyExternalForce(plates[cursor], config)]
            /\ step' = Called("apply_external_force")
            /\ pc' = "apply_spring_forces"
            /\ UNCHANGED cursor
       ELSE /\ pc' = "drift"
            /\ cursor' = 1
            /\ UNCHANGED <<plates, step>>
    /\ UNCHANGED <<in_vars, panic, rng, asm_vars, tile_of, tectonics_iteration, state,
                   next_state, pending>>

\* a pass in which the spring forces of every plate are applied while one plate is at work
SimulateSpringForcesOnAll ==
    /\ pc = "apply_spring_forces" /\ panic = ""
    /\ plates' = [i \in 1..Len(plates) |->
                    [plates[i] EXCEPT !.shape = ApplySpringForces(plates[i].shape)]]
    /\ step' = Called("apply_spring_forces")
    /\ pc' = "update_shape"
    /\ UNCHANGED <<in_vars, panic, rng, asm_vars, tile_of, cursor, tectonics_iteration, state,
                   next_state, pending>>

\* Tectonics::simulate, line 301
SimulateSpringForces ==
    /\ pc = "apply_spring_forces" /\ panic = ""
    /\ plates' = [plates EXCEPT ![cursor].shape = ApplySpringForces(plates[cursor].shape)]
    /\ step' = Called("apply_spring_forces")
    /\ pc' = "update_shape"
    /\ UNCHANGED <<in_vars, panic, rng, asm_vars, tile_of, cursor, tectonics_iteration, state,
                   next_state, pending>>

\* a simulate that lets the axis of a plate drift right after that plate's update
SimulateUpdateThenDrift ==
    /\ pc = "update_shape" /\ panic = ""
    /\ plates' = [plates EXCEPT
            ![cursor] = Drift([plates[cursor] EXCEPT
                                  !.shape = ShapeUpdate(plates[cursor].shape, config.timestep)],
                              config, rng.draws)]
    /\ rng' = RngAfter(<<FloatEntry, FloatEntry>>)
    /\ step' = [step EXCEPT !.calls = @ \o <<<<"update", cursor>>, <<"drift", cursor>>>>]
    /\ cursor' = cursor + 1
    /\ pc' = "apply_external_force"
    /\ UNCHANGED <<in_vars, panic, asm_vars, tile_of, tectonics_iteration, state,
                   next_state, pending>>

\* Tectonics::simulate, line 304
SimulateUpdate ==
    /\ pc = "update_shape" /\ panic = ""
    /\ IF UpdateBoundingDistanceFails(ShapeMoved(plates[cursor].shape, config.timestep))
       THEN /\ plates' = [plates EXCEPT
                    ![cursor].shape = ShapeMoved(plates[cursor].shape, config.timestep)]
            /\ panic' = "called Option::unwrap() on a None value"
            /\ UNCHANGED <<pc, cursor>>
       ELSE /\ plates' = [plates EXCEPT
                    ![cursor].shape = ShapeUpdate(plates[cursor].shape, config.timestep)]
            /\ cursor' = cursor + 1
            /\ pc' = "apply_external_force"
            /\ UNCHANGED panic
    /\ step' = Called("update")
    /\ UNCHANGED <<in_vars, rng, asm_vars, tile_of, tectonics_iteration, state,
                   next_state, pending>>

\* a drift that advances the generator by one draw per plate
SimulateDriftOneDraw ==
    /\ pc = "drift" /\ panic = ""
    /\ IF cursor <= Len(plates)
       THEN /\ plates' = [plates EXCEPT ![cursor] = Drift(plates[cursor], config, rng.draws)]
            /\ rng' = RngAfter(<<FloatEntry>>)
            /\ step' = Called("drift")
            /\ cursor' = cursor + 1
            /\ UNCHANGED <<pc, tectonics_iteration>>
       ELSE /\ tectonics_iteration' = tectonics_iteration + 1
            /\ pc' = "update"
            /\ cursor' = 0
            /\ UNCHANGED <<plates, rng, step>>
    /\ UNCHANGED <<in_vars, panic, asm_vars, tile_of, state, next_state, pending>>

\* Tectonics::simulate, lines 307-320, for the plate at the cursor; after the last
\* plate simulate returns and simulate_system counts the iteration (line 99)
SimulateDrift ==
    /\ pc = "drift" /\ panic = ""
    /\ IF cursor <= Len(plates)
       THEN /\ plates' = [plates EXCEPT ![cursor] = Drift(plates[cursor], config, rng.draws)]
            /\ rng' = RngAfter(<<FloatEntry, FloatEntry>>)
            /\ step' = Called("drift")
            /\ cursor' = cursor + 1
            /\ UNCHANGED <<pc, tectonics_iteration>>
       ELSE /\ tectonics_iteration' = tectonics_iteration + 1
            /\ pc' = "update"
            /\ cursor' = 0
            /\ UNCHANGED <<plates, rng, step>>
    /\ UNCHANGED <<in_vars, panic, asm_vars, tile_of, state, next_state, pending>>

\* every system of the Update schedule has run: the next frame begins, with the
\* state transition if one was requested (OnExit(Tectonics) runs interpolate_vertices)
NextFrame ==
    /\ pc = "update" /\ panic = ""
    /\ state = "Tectonics"
    /\ pending = {}
    /\ IF next_state = ""
       THEN /\ pending' = UpdateSystems
            /\ UNCHANGED <<state, next_state, panic>>
       ELSE /\ IF tectonics_iteration % 40 = 0
                  /\ \E i \in 1..Len(plates) : ~IterCompletes(plates[i].shape)
               THEN /\ panic' = "Tried to get springs for point mass not in spring_map"
                    /\ UNCHANGED <<state, next_state>>
               ELSE /\ state' = next_state
                    /\ next_state' = ""
                    /\ UNCHANGED panic
            /\ UNCHANGED pending
    /\ UNCHANGED <<in_vars, pc, rng, asm_vars, out_vars, cursor, tectonics_iteration, step>>

Next ==
    \/ FromConfigRejects
    \/ FromConfigEnter
    \/ StartPlate
    \/ GrowStep
    \/ AcceptPlate
    \/ MergePlate
    \/ MergeWithoutTarget
    \/ DropEmptyPlate
    \/ Reseed
    \/ FromConfigReturn
    \/ InterpolateVertices
    \/ SimulateSystemSteps
    \/ SimulateSystemEnds
    \/ SimulateExternalForce
    \/ SimulateSpringForces
    \/ SimulateUpdate
    \/ SimulateDrift
    \/ NextFrame

Spec == Init /\ [][Next]_vars

\* ------------------------------------------------------------- two runs, one seed
\* the row with quotas of two tiles or none, with and without a step of the driver
TwinInputs ==
    {Row4} \X ({Configuration(4, Unit \div 2, mtf, Unit \div 2, m, Unit, it) :
                    mtf \in {0, Unit \div 2}, m \in {2, 3}, it \in {0, 1}}
               \cup {c \in BadConfigs : c.continental_rate > Unit})

\* the first of two runs whose StdRng is seeded with the same value (seed_from_u64)
InitTwin ==
    /\ \E input \in TwinInputs : particle_sphere = input[1] /\ config = input[2]
    /\ twin = [phase |-> "first", first |-> <<>>]
    /\ InitRun

\* the first run is observed between two frames, and the program is started again
\* with the same seed, tile graph and configuration: the generator repeats its draws
Rerun ==
    /\ twin.phase = "first"
    /\ pc = "update" /\ panic = ""
    /\ pending = UpdateSystems
    /\ twin' = [phase |-> "second",
                first |-> <<[iteration |-> tectonics_iteration, plates |-> plates,
                             tile_of |-> tile_of]>>]
    /\ rng' = [draws |-> 0, log |-> rng.log]
    /\ pc' = "setup"
    /\ generated_majors' = 0 /\ generated_minors' = 0
    /\ available_tiles' = {} /\ adjacent_tiles' = <<>>
    /\ plate_builders' = <<>> /\ builder' = NoBuilder
    /\ tiles_to_take' = 0 /\ taken' = 0 /\ merges' = 0 /\ merged_types' = {}
    /\ plates' = <<>> /\ tile_of' = <<>>
    /\ cursor' = 0 /\ tectonics_iteration' = 0
    /\ state' = "Tectonics" /\ next_state' = "" /\ pending' = UpdateSystems
    /\ step' = NoStep
    /\ UNCHANGED <<particle_sphere, config, panic>>

NextTwin ==
    \/ Next
    \/ Rerun

SpecTwin == InitTwin /\ [][NextTwin]_vars

\* ------------------------------------------------------------- a Shape on its own
\* force accumulators a client of the crate can leave behind: none, a tangent force,
\* and the NaN that a closure given to apply_external_force may return
TestForces == {ZERO, <<0, Unit, 0>>, NAN3, <<0, Big, 0>>}
TestPointMasses ==
    {[position |-> p, velocity |-> v, prev_force |-> pf, force |-> f, mass |-> m] :
        p \in {PX, PZ}, v \in {ZERO, <<0, Unit \div 2, 0>>},
        pf \in TestForces, f \in TestForces,
        m \in {OCEANIC_PARTICLE_MASS, CONTINENTAL_PARTICLE_MASS}}
\* shapes of one point mass, and of a point mass next to one at rest
TestShapes ==
    {ShapeAddPointMass(ShapeNew, pm) : pm \in TestPointMasses}
    \cup {ShapeAddPointMass(ShapeAddPointMass(ShapeNew, pm),
                            PointMassNew(PY, CONTINENTAL_PARTICLE_MASS)) :
            pm \in TestPointMasses}

\* Shape::update is about to be called on a shape with accumulated forces
InitShape ==
    /\ particle_sphere = Ring6
    /\ \E dt \in Timesteps :
        config = Configuration(1, Unit \div 2, Unit \div 2, Unit \div 2, 1, dt, 1)
    /\ twin = [phase |-> "off", first |-> <<>>]
    /\ panic = ""
    /\ rng = [draws |-> 0, log |-> <<>>]
    /\ generated_majors = 0 /\ generated_minors = 0
    /\ available_tiles = {} /\ adjacent_tiles = <<>>
    /\ plate_builders = <<>> /\ builder = NoBuilder
    /\ tiles_to_take = 0 /\ taken = 0 /\ merges = 0 /\ merged_types = {}
    /\ \E shape \in TestShapes : plates = <<[NoPlate EXCEPT !.shape = shape]>>
    /\ tile_of = <<>>
    /\ pc = "update_shape" /\ cursor = 1
    /\ tectonics_iteration = 0
    /\ state = "Tectonics" /\ next_state = "" /\ pending = {"interpolate_vertices"}
    /\ step = [NoStep EXCEPT !.start = plates]

NextShape == SimulateUpdate

SpecShape == InitShape /\ [][NextShape]_vars

\* ------------------------------------------------------------- spring passes
\* Shape::apply_external_force, Shape::apply_spring_forces and Shape::update on shapes
\* of three point masses, the first two at the same position and the third a quarter
\* turn away
TestRestLengths == {0, Unit \div 2, Unit}
TestSpringLists ==
    {<<Spring(0, 1, 0, Unit, Unit \div 2), Spring(0, 2, r, Unit, Unit \div 2)>> :
        r \in TestRestLengths}
    \cup {<<Spring(2, 1, r, Unit, Unit \div 2), Spring(1, 0, 0, Unit, Unit \div 2)>> :
        r \in TestRestLengths}
    \cup {<<Spring(2, 0, r, Unit, Unit \div 2), Spring(1, 1, 0, Unit, Unit \div 2),
            Spring(1, 2, Unit, Unit, Unit \div 2)>> : r \in TestRestLengths}
    \cup {<<Spring(0, 0, 0, Unit, Unit \div 2), Spring(1, 0, r, Unit, Unit \div 2)>> :
        r \in TestRestLengths}
RECURSIVE WithSprings(_, _, _)
WithSprings(shape, springs, from) ==
    IF from > Len(springs) THEN shape
    ELSE WithSprings(ShapeAddSpring(shape, springs[from]), springs, from + 1)
TestSpringShapes ==
    {WithSprings(ShapeAddPointMass(ShapeAddPointMass(ShapeAddPointMass(ShapeNew,
                    [PointMassNew(PX, m) EXCEPT !.velocity = v, !.force = f]),
                    PointMassNew(PX, m)), PointMassNew(PY, m)),
                 springs, 1) :
        m \in {OCEANIC_PARTICLE_MASS, CONTINENTAL_PARTICLE_MASS},
        v \in {ZERO, <<0, Unit \div 2, 0>>, <<0, 0, Unit \div 2>>},
        f \in {ZERO, <<0, Unit, 0>>},
        springs \in TestSpringLists}

\* the force passes of simulate are about to be made on the shape of the only plate,
\* whose first point mass may hold a force accumulated earlier
InitSprings ==
    /\ particle_sphere = Ring6
    /\ \E dt \in Timesteps :
        config = Configuration(1, Unit \div 2, Unit \div 2, Unit \div 2, 1, dt, 1)
    /\ twin = [phase |-> "off", first |-> <<>>]
    /\ panic = ""
    /\ rng = [draws |-> 0, log |-> <<>>]
    /\ generated_majors = 0 /\ generated_minors = 0
    /\ available_tiles = {} /\ adjacent_tiles = <<>>
    /\ plate_builders = <<>> /\ builder = NoBuilder
    /\ tiles_to_take = 0 /\ taken = 0 /\ merges = 0 /\ merged_types = {}
    /\ \E shape \in TestSpringShapes :
        plates = <<[NoPlate EXCEPT !.shape = shape, !.axis_of_rotation = PZ]>>
    /\ tile_of = <<>>
    /\ pc = "apply_external_force" /\ cursor = 1
    /\ tectonics_iteration = 0
    /\ state = "Tectonics" /\ next_state = "" /\ pending = {"interpolate_vertices"}
    /\ step = [NoStep EXCEPT !.start = plates]

NextSprings == SimulateExternalForce \/ SimulateSpringForces \/ SimulateUpdate

SpecSprings == InitSprings /\ [][NextSprings]_vars

\* ------------------------------------------------------------- building a Shape
\* Shape::new has been called for the shape of the only plate; any sequence of
\* add_point_mass and add_spring calls follows, the anchors of every spring being
\* indices of point masses added before it
InitBuild ==
    /\ particle_sphere = Ring6
    /\ config = Configuration(1, Unit \div 2, Unit \div 2, Unit \div 2, 1, Unit, 0)
    /\ twin = [phase |-> "off", first |-> <<>>]
    /\ panic = ""
    /\ rng = [draws |-> 0, log |-> <<>>]
    /\ generated_majors = 0 /\ generated_minors = 0
    /\ available_tiles = {} /\ adjacent_tiles = <<>>
    /\ plate_builders = <<>> /\ builder = NoBuilder
    /\ tiles_to_take = 0 /\ taken = 0 /\ merges = 0 /\ merged_types = {}
    /\ plates = <<NoPlate>>
    /\ tile_of = <<>>
    /\ pc = "build" /\ cursor = 1
    /\ tectonics_iteration = 0
    /\ state = "Tectonics" /\ next_state = "" /\ pending = {}
    /\ step = NoStep

\* the calls made on the shape so far
ShapeCalls == Len(plates[1].shape.point_masses) + Len(plates[1].shape.springs)

\* Shape::add_point_mass on the shape
BuildAddPointMass ==
    /\ pc = "build" /\ ShapeCalls < MaxShapeCalls
    /\ \E position \in {PX, PY} :
        plates' = [plates EXCEPT ![1].shape =
                      ShapeAddPointMass(@, PointMassNew(position, OCEANIC_PARTICLE_MASS))]
    /\ UNCHANGED <<in_vars, pc, panic, rng, asm_vars, tile_of, drv_vars>>

\* Shape::add_spring on the shape, with anchors among the point masses it has
BuildAddSpring ==
    /\ pc = "build" /\ ShapeCalls < MaxShapeCalls
    /\ \E a, b \in 0..(Len(plates[1].shape.point_masses) - 1) :
        plates' = [plates EXCEPT ![1].shape =
                      ShapeAddSpring(@, Spring(a, b, 0, Unit, Unit \div 2))]
    /\ UNCHANGED <<in_vars, pc, panic, rng, asm_vars, tile_of, drv_vars>>

NextBuild == BuildAddPointMass \/ BuildAddSpring

SpecBuild == InitBuild /\ [][NextBuild]_vars

\* ------------------------------------------------------------- properties
\* the positions <<plate, point mass>> of the returned plates holding tile t
Holders(t) ==
    {ij \in (1..Len(tile_of)) \X (1..tile_count) :
        ij[2] <= Len(tile_of[ij[1]]) /\ tile_of[ij[1]][ij[2]] = t}

PlateSizes == [i \in 1..Len(plates) |-> Len(plates[i].shape.point_masses)]

\* C1: whenever from_config returns, every tile has produced exactly one point mass,
\* which lives in exactly one plate, and the point-mass counts of the returned plates
\* sum to the tile count; the final assertion of from_config never fires
C1_PlatesPartitionTiles ==
    /\ panic # "Point mass count not same as Particle Tile count!"
    /\ Returned =>
        /\ Len(tile_of) = Len(plates)
        /\ \A i \in 1..Len(plates) : Len(tile_of[i]) = Len(plates[i].shape.point_masses)
        /\ \A t \in 0..(tile_count - 1) : Cardinality(Holders(t)) = 1
        /\ SumSeq(PlateSizes) = tile_count

\* from_config has returned several plates after merging an undersized one
C1_Witness ==
    /\ Returned /\ panic = ""
    /\ Len(plates) >= 2 /\ merges > 0
    /\ SumSeq(PlateSizes) = tile_count

\* the second run has reached the frame at which the first run was observed
TwinObserved ==
    /\ twin.phase = "second"
    /\ pc = "update" /\ panic = ""
    /\ pending = UpdateSystems
    /\ tectonics_iteration = twin.first[1].iteration

\* C2: two runs with the same seed, configuration and tile graph return the same
\* plates in the same order with the same tiles, point masses and springs, and hold
\* the same plates after every simulate call
C2_SameSeedSameResult ==
    TwinObserved => /\ plates = twin.first[1].plates
                    /\ tile_of = twin.first[1].tile_of

\* the tile the point mass at index a (0-based) of plate i was created from
TileAt(i, a) == tile_of[i][a + 1]

\* both anchors of spring s of plate i index point masses of plate i, and these were
\* created from tiles of which the second is in the adjacency list of the first
SpringInsidePlate(i, s) ==
    LET n == Len(plates[i].shape.point_masses)
    IN  /\ s.anchor_a \in 0..(n - 1)
        /\ s.anchor_b \in 0..(n - 1)
        /\ Holders(TileAt(i, s.anchor_a)) = {<<i, s.anchor_a + 1>>}
        /\ Holders(TileAt(i, s.anchor_b)) = {<<i, s.anchor_b + 1>>}
        /\ TileAt(i, s.anchor_b) \in Range(particle_sphere.tiles[TileAt(i, s.anchor_a) + 1].adjacent)

\* C3: in every returned plate, also after simulate calls, both anchors of each spring
\* are valid indices of that plate's point_masses and the tiles they were created from
\* belong to that plate alone, springs made while merging included
C3_SpringsStayInsidePlate ==
    Returned =>
        \A i \in 1..Len(plates) : \A k \in 1..Len(plates[i].shape.springs) :
            SpringInsidePlate(i, plates[i].shape.springs[k])

\* after a merge and a simulate call, a plate holds a spring joining a merged mass
C3_Witness ==
    /\ Returned /\ panic = ""
    /\ merges > 0 /\ tectonics_iteration > 0
    /\ \E i \in 1..Len(plates) : \E k \in 1..Len(plates[i].shape.springs) :
        LET s == plates[i].shape.springs[k]
        IN  /\ s.anchor_a # s.anchor_b
            /\ s.anchor_a >= config.min_plate_size
            /\ SpringInsidePlate(i, s)

\* C4: whenever from_config returns, every returned plate has at least min_plate_size
\* point masses, so a plate that ended its growth with fewer is not in the list
C4_NoUndersizedPlate ==
    Returned => \A i \in 1..Len(plates) :
                    Len(plates[i].shape.point_masses) >= config.min_plate_size

\* from_config has returned although some plate ended its growth undersized
C4_Witness ==
    /\ Returned /\ panic = ""
    /\ merges > 0
    /\ config.min_plate_size >= 2
    /\ \A i \in 1..Len(plates) : Len(plates[i].shape.point_masses) >= config.min_plate_size

\* the tiles of the point masses of returned plate i
TilesOfPlate(i) == Range(tile_of[i])

\* the springs (positions in the list) of plate i that join the masses of tiles t and u
SpringsJoining(i, t, u) ==
    {k \in 1..Len(plates[i].shape.springs) :
        LET s == plates[i].shape.springs[k]
        IN  {TileAt(i, s.anchor_a), TileAt(i, s.anchor_b)} = {t, u}}

AdjacentTiles(t, u) == u \in Range(particle_sphere.tiles[t + 1].adjacent)

\* C5: after assembly each plate holds exactly one spring for every unordered pair of
\* distinct adjacent tiles that are both in the plate, and no spring whose anchors are
\* not such a pair
C5_OneSpringPerAdjacentPair ==
    (Returned /\ tectonics_iteration = 0) =>
        \A i \in 1..Len(plates) :
            /\ \A t \in TilesOfPlate(i), u \in TilesOfPlate(i) :
                (t # u /\ AdjacentTiles(t, u)) => Cardinality(SpringsJoining(i, t, u)) = 1
            /\ \A k \in 1..Len(plates[i].shape.springs) :
                LET s == plates[i].shape.springs[k]
                IN  /\ TileAt(i, s.anchor_a) # TileAt(i, s.anchor_b)
                    /\ AdjacentTiles(TileAt(i, s.anchor_a), TileAt(i, s.anchor_b))

\* the plate under construction has finished growing undersized and not empty, and
\* some plate has been accepted
UndersizedWithTarget ==
    /\ GrowDone
    /\ Len(builder.plate.shape.point_masses) > 0
    /\ Len(builder.plate.shape.point_masses) < config.min_plate_size
    /\ plate_builders # <<>>

\* the geodesic distances from the point masses of accepted plate i to position p
DistancesTo(i, p) ==
    {geodesic_distance(plate_builders[i].plate.shape.point_masses[j].position, p) :
        j \in 1..Len(plate_builders[i].plate.shape.point_masses)}
SmallestOf(S) == CHOOSE d \in S : \A e \in S : d <= e
\* the accepted plate nearest to p, the earliest of equally near ones
NearestAccepted(p) ==
    CHOOSE i \in 1..Len(plate_builders) :
        /\ \A j \in 1..Len(plate_builders) :
            SmallestOf(DistancesTo(i, p)) <= SmallestOf(DistancesTo(j, p))
        /\ \A j \in 1..(i - 1) :
            SmallestOf(DistancesTo(j, p)) # SmallestOf(DistancesTo(i, p))

\* the step discards the undersized plate and appends its masses to accepted plate c
MergedInto(c) ==
    LET k == Len(builder.plate.shape.point_masses)
        before == plate_builders[c].plate.shape.point_masses
        after == plate_builders'[c].plate.shape.point_masses
        n == Len(before)
    IN  /\ Len(plate_builders') = Len(plate_builders)
        /\ builder' = NoBuilder
        /\ \A j \in 1..Len(plate_builders) : j # c => plate_builders'[j] = plate_builders[j]
        /\ Len(after) = n + k
        /\ SubSeq(after, 1, n) = before
        /\ {plate_builders'[c].origin[n + m] : m \in 1..k} = Range(builder.origin)
        /\ \A m \in 1..k :
            /\ \E j \in 1..k :
                /\ plate_builders'[c].origin[n + m] = builder.origin[j]
                /\ after[n + m].position = builder.plate.shape.point_masses[j].position
            /\ after[n + m].velocity = ZERO
            /\ after[n + m].force = ZERO
            /\ after[n + m].prev_force = ZERO
            /\ after[n + m].mass =
                (IF plate_builders[c].plate.plate_type = "Continental"
                 THEN CONTINENTAL_PARTICLE_MASS ELSE OCEANIC_PARTICLE_MASS)

\* C6: an undersized, non-empty plate is discarded once an accepted plate exists, and
\* all its masses are appended to the accepted plate nearest to its first point mass
\* (the earliest on ties), each with its position, zero velocity and forces, and the
\* mass constant of the target plate's type
C6_MergeIntoNearestPlate ==
    [][UndersizedWithTarget =>
        MergedInto(NearestAccepted(builder.plate.shape.point_masses[1].position))]_vars

\* a merge has just been made, and a continental plate holds more masses than any
\* quota allows, each with the continental mass
C6_Witness ==
    /\ pc = "reseed" /\ panic = ""
    /\ merges > 0
    /\ \E i \in 1..Len(plate_builders) :
        /\ plate_builders[i].plate.plate_type = "Continental"
        /\ Len(plate_builders[i].origin) > major_tile_count
        /\ Len(plate_builders[i].origin) > minor_tile_count
        /\ \A j \in 1..Len(plate_builders[i].origin) :
            plate_builders[i].plate.shape.point_masses[j].mass = CONTINENTAL_PARTICLE_MASS

\* the run is on the ring of six tiles with min_plate_size 6
RingOfSix == particle_sphere = Ring6 /\ config.min_plate_size = 6

\* C7: on the ring of six tiles with min_plate_size 6, whatever the other fields of
\* an accepted configuration and whatever the draws, from_config never enters the
\* merge branch and does not fail, and what it returns is one plate with 6 point
\* masses and 6 springs
C7_RingYieldsOnePlate ==
    RingOfSix =>
        /\ merges = 0
        /\ panic # "Failed to find closest plate when plate was too small"
        /\ Returned => /\ Len(plates) = 1
                       /\ Len(plates[1].shape.point_masses) = 6
                       /\ Len(plates[1].shape.springs) = 6

\* the three fractions of the configuration lie in [0, 1]
FractionsInRange ==
    \A f \in {config.major_tile_fraction, config.major_plate_fraction, config.continental_rate} :
        0 <= f /\ f <= Unit

\* no random number has been drawn, no tile claimed and no plate created
NothingDone ==
    /\ rng.draws = 0
    /\ available_tiles = {} /\ adjacent_tiles = <<>>
    /\ generated_majors = 0 /\ generated_minors = 0
    /\ plate_builders = <<>> /\ builder = NoBuilder
    /\ plates = <<>>

\* C8: with a fraction outside [0, 1] from_config fails before it draws a random
\* number, claims a tile or creates a plate; with all three fractions inside [0, 1],
\* endpoints included, the assertions on the fractions never fail
C8_FractionsCheckedFirst ==
    /\ [](~FractionsInRange => (pc = "setup" /\ NothingDone))
    /\ [](FractionsInRange => panic # "assertion failed: (0.0..=1.0).contains")
    /\ [][(~FractionsInRange /\ panic = "") =>
            (panic' = "assertion failed: (0.0..=1.0).contains" /\ NothingDone')]_vars

\* from_config has failed on a fraction outside [0, 1]
C8_Witness ==
    /\ ~FractionsInRange
    /\ panic = "assertion failed: (0.0..=1.0).contains"
    /\ NothingDone

\* Shape::update is about to be called with timestep 0 on the plate at the cursor
UpdateWithZeroTimestep == pc = "update_shape" /\ panic = "" /\ config.timestep = 0

\* no force or previous force of the shape at the cursor is NaN
ForcesFinite ==
    \A j \in 1..Len(plates[cursor].shape.point_masses) :
        /\ ~IsNaN3(plates[cursor].shape.point_masses[j].force)
        /\ ~IsNaN3(plates[cursor].shape.point_masses[j].prev_force)

\* the step keeps every position and velocity of the shape at the cursor
PositionsAndVelocitiesKept ==
    LET before == plates[cursor].shape.point_masses
        after == plates'[cursor].shape.point_masses
    IN  /\ Len(after) = Len(before)
        /\ \A j \in 1..Len(before) :
            /\ after[j].position = before[j].position
            /\ after[j].velocity = before[j].velocity

\* the step resets the accumulators and recomputes centroid and bounding radius
ForcesResetAndCachesRecomputed ==
    LET before == plates[cursor].shape.point_masses
        shape == plates'[cursor].shape
    IN  /\ \A j \in 1..Len(before) :
            /\ shape.point_masses[j].force = ZERO
            /\ shape.point_masses[j].prev_force = before[j].force
        /\ shape.centroid = CentroidFrom(shape.point_masses, 1)
        /\ \A j \in 1..Len(before) :
            CentroidAngle(shape, shape.point_masses[j].position) <= shape.bounding_distance
        /\ \E j \in 1..Len(before) :
            CentroidAngle(shape, shape.point_masses[j].position) = shape.bounding_distance

IncidentSprings(shape, a) ==
    {k - 1 : k \in {n \in 1..Len(shape.springs) :
                        shape.springs[n].anchor_a = a \/ shape.springs[n].anchor_b = a}}

\* C10: for every plate returned by from_config the two iterators over point masses
\* with springs complete without failing and yield, with the point mass of index i,
\* exactly the springs of the plate with anchor_a = i or anchor_b = i
C10_IteratorsYieldIncidentSprings ==
    Returned =>
        \A p \in 1..Len(plates) :
            /\ IterCompletes(plates[p].shape)
            /\ \A i \in 0..(Len(plates[p].shape.point_masses) - 1) :
                /\ Range(plates[p].shape.spring_map[i]) = IncidentSprings(plates[p].shape, i)
                /\ Range(IterSprings(plates[p].shape, i))
                    = {plates[p].shape.springs[k + 1] : k \in IncidentSprings(plates[p].shape, i)}

\* a per-plate pass of simulate is at work on the plate at the cursor
PlateAtWork ==
    /\ pc \in {"apply_external_force", "apply_spring_forces", "update_shape"}
    /\ panic = ""
    /\ cursor <= Len(plates)

\* the three calls of simulate on one plate, made on that plate alone
PlatePass(plate) ==
    LET forced == ApplyExternalForce(plate, config)
    IN  [forced EXCEPT !.shape = ShapeUpdate(ApplySpringForces(forced.shape), config.timestep)]

\* the per-plate passes of a simulate call are over and no axis has drifted yet
PassesDone == pc = "drift" /\ cursor = 1 /\ panic = ""

\* C11: within one simulate call the processing of a plate changes nothing but that
\* plate's own shape (no other plate, no axis, not the configuration or the generator),
\* and after the passes every plate is what its own pre-step state alone determines,
\* so every order of the per-plate passes gives the same post-step state
C11_PlatePassesIndependent ==
    /\ [][PlateAtWork =>
            /\ Len(plates') = Len(plates)
            /\ \A j \in 1..Len(plates) : j # cursor => plates'[j] = plates[j]
            /\ plates'[cursor] = [plates[cursor] EXCEPT !.shape = plates'[cursor].shape]
            /\ config' = config /\ rng' = rng]_vars
    /\ [](PassesDone =>
            /\ Len(plates) = Len(step.start)
            /\ \A i \in 1..Len(plates) : plates[i] = PlatePass(step.start[i]))

\* the passes of a simulate call over two or more plates are done and have moved a mass
C11_Witness ==
    /\ PassesDone
    /\ Len(plates) >= 2
    /\ Len(step.calls) = 3 * Len(plates)
    /\ \A i \in 1..Len(plates) : plates[i] = PlatePass(step.start[i])
    /\ \E i \in 1..Len(plates) : \E j \in 1..Len(plates[i].shape.point_masses) :
        plates[i].shape.point_masses[j].velocity # step.start[i].shape.point_masses[j].velocity

\* the anchors of spring s of shape are at geodesic distance exactly zero
ZeroDistance(shape, s) ==
    geodesic_distance(shape.point_masses[s.anchor_a + 1].position,
                      shape.point_masses[s.anchor_b + 1].position) = 0

\* the springs of shape whose anchors are apart, in the order of the list
SpringsApart(shape) ==
    LET Apart(s) == ~ZeroDistance(shape, s)
    IN  SelectSeq(shape.springs, Apart)

\* apply_spring_forces is about to be called on a shape with a spring of distance zero
SpringForcesOverZeroDistance ==
    /\ pc = "apply_spring_forces" /\ panic = ""
    /\ \E k \in 1..Len(plates[cursor].shape.springs) :
        ZeroDistance(plates[cursor].shape, plates[cursor].shape.springs[k])

\* C12: a spring whose anchors are at geodesic distance exactly zero changes no force
\* accumulator nor anything else and raises no error, and the other springs of the
\* shape are applied in the same apply_spring_forces pass
C12_ZeroDistanceSpringSkipped ==
    [][SpringForcesOverZeroDistance =>
        /\ panic' = ""
        /\ plates'[cursor].shape =
            [plates[cursor].shape EXCEPT
                !.point_masses = ApplySpringsFrom(SpringsApart(plates[cursor].shape),
                                                  plates[cursor].shape.point_masses, 1)]
        /\ \A j \in 1..Len(plates[cursor].shape.point_masses) :
            (\A k \in 1..Len(plates[cursor].shape.springs) :
                LET sp == plates[cursor].shape.springs[k]
                IN  (sp.anchor_a = j - 1 \/ sp.anchor_b = j - 1)
                        => ZeroDistance(plates[cursor].shape, sp))
            => plates'[cursor].shape.point_masses[j] = plates[cursor].shape.point_masses[j]]_vars

\* apply_spring_forces has returned without error on a shape that holds a spring of
\* distance zero next to a spring whose anchors are apart and which exerts a force
C12_Witness ==
    /\ pc = "update_shape" /\ panic = ""
    /\ step.calls # <<>> /\ step.calls[Len(step.calls)] = <<"apply_spring_forces", cursor>>
    /\ \E k \in 1..Len(plates[cursor].shape.springs) :
        ZeroDistance(plates[cursor].shape, plates[cursor].shape.springs[k])
    /\ \E k \in 1..Len(plates[cursor].shape.springs) :
        /\ ~ZeroDistance(plates[cursor].shape, plates[cursor].shape.springs[k])
        /\ SpringApplyForce(plates[cursor].shape.springs[k], plates[cursor].shape.point_masses)
            # plates[cursor].shape.point_masses
    /\ \A j \in 1..Len(plates[cursor].shape.point_masses) :
        ~IsNaN3(plates[cursor].shape.point_masses[j].force)

\* the mean of the positions of the shape's point masses
MeanPosition(shape) == CentroidFrom(shape.point_masses, 1)
\* the largest distance from the cached centroid to a point mass of the shape
LargestCentroidAngle(shape) ==
    CHOOSE d \in {CentroidAngle(shape, shape.point_masses[i].position) :
                    i \in 1..Len(shape.point_masses)} :
        \A i \in 1..Len(shape.point_masses) :
            CentroidAngle(shape, shape.point_masses[i].position) <= d
CachesCurrent(shape) ==
    /\ shape.centroid = MeanPosition(shape)
    /\ ~IsNaN3(shape.centroid)
    /\ shape.bounding_distance = LargestCentroidAngle(shape)
    /\ shape.bounding_distance # NaNVal

\* C13: at every observable point of a plate's shape, from the return of from_config
\* (before any step) on and after every update, the cached centroid is the mean of
\* the current positions and the cached bounding radius is the largest distance from
\* that centroid to a point mass of the shape
C13_CachesFollowPositions ==
    (Returned /\ panic = "" /\ pc \in {"update", "apply_external_force", "drift"}) =>
        \A i \in 1..Len(plates) : CachesCurrent(plates[i].shape)

NoMergeTarget == "Failed to find closest plate when plate was too small"
\* a plate has finished growing undersized while no plate has been accepted
UndersizedWithoutTarget ==
    /\ GrowDone
    /\ Len(builder.plate.shape.point_masses) > 0
    /\ Len(builder.plate.shape.point_masses) < config.min_plate_size
    /\ plate_builders = <<>>

\* C14: when a plate finishes growing with at least one but fewer than min_plate_size
\* point masses while no plate has been accepted, from_config halts with a fatal
\* error; it never returns, neither with the undersized plate kept nor with its
\* tiles dropped
C14_UndersizedFirstPlateIsFatal ==
    /\ [][UndersizedWithoutTarget =>
            /\ panic' = NoMergeTarget
            /\ UNCHANGED <<pc, plate_builders, builder, plates>>]_vars
    /\ [][panic = NoMergeTarget => UNCHANGED <<pc, panic, plates>>]_vars
    /\ [](panic = NoMergeTarget => InFromConfig /\ plates = <<>>)

\* from_config has halted on an undersized plate with no accepted plate
C14_Witness ==
    /\ panic = NoMergeTarget
    /\ plate_builders = <<>>
    /\ Len(builder.plate.shape.point_masses) > 0
    /\ Len(builder.plate.shape.point_masses) < config.min_plate_size

\* |position| = 1
OnUnitSphere(position) ==
    /\ ~IsNaN3(position)
    /\ position[1] * position[1] + position[2] * position[2] + position[3] * position[3]
        = Unit * Unit
AllOnUnitSphere(shape) ==
    \A j \in 1..Len(shape.point_masses) : OnUnitSphere(shape.point_masses[j].position)
\* Shape::update is about to be called on a shape whose positions are on the sphere
UpdateOnSphere ==
    pc = "update_shape" /\ panic = "" /\ AllOnUnitSphere(plates[cursor].shape)

\* C15: every position has norm 1 after every Shape::update, for any timestep and any
\* accumulated forces (and after assembly, where every position is a tile normal)
C15_PositionsStayOnSphere ==
    [][UpdateOnSphere => AllOnUnitSphere(plates'[cursor].shape)]_vars

\* a new plate is about to be created
PlateStarts ==
    /\ pc = "loop" /\ panic = ""
    /\ Cardinality(available_tiles) > 0 \/ Len(adjacent_tiles) > 0
    /\ generated_majors + generated_minors < MaxGenerated
\* the fraction of the tiles that earlier plates have turned into point masses
ClaimedFraction == F32Div(AsF32(point_mass_count), AsF32(tile_count))

\* C16: a new plate is Continental exactly when the number of tiles already turned
\* into point masses by earlier plates, divided by tile_count, is strictly below
\* continental_rate, and Oceanic otherwise; the seed tile waiting in the frontier is
\* not counted as claimed
C16_PlateTypeByClaimedFraction ==
    [][PlateStarts =>
        builder'.plate.plate_type =
            IF F32Lt(ClaimedFraction, config.continental_rate)
            THEN "Continental" ELSE "Oceanic"]_vars

\* a plate has been accepted, merged or dropped; its frontier may hold leftover tiles
PlateEnded == pc = "reseed" /\ panic = ""
\* the tiles no plate has claimed: the unclaimed set and the frontier
Unclaimed == available_tiles \cup Range(adjacent_tiles)

\* C17: when a plate stops growing with tiles left in the frontier, those tiles form
\* the frontier of the next plate; a single random unclaimed tile is the new seed only
\* when the frontier is empty and unclaimed tiles remain
C17_LeftoverFrontierIsKept ==
    [][PlateEnded =>
        IF adjacent_tiles # <<>>
        THEN adjacent_tiles' = adjacent_tiles /\ available_tiles' = available_tiles
        ELSE IF available_tiles # {}
        THEN /\ Len(adjacent_tiles') = 1
             /\ adjacent_tiles'[1] \in available_tiles
             /\ available_tiles' = available_tiles \ {adjacent_tiles'[1]}
        ELSE adjacent_tiles' = <<>> /\ available_tiles' = {}]_vars

\* C17 as it holds: after every plate the leftover frontier tiles go back to the
\* unclaimed set, and if any tile is unclaimed a single tile drawn from all of them,
\* leftover frontier tiles included, is the whole frontier of the next plate
C17_FrontierReturnedThenReseeded ==
    [][PlateEnded =>
        IF Unclaimed # {}
        THEN /\ Len(adjacent_tiles') = 1
             /\ adjacent_tiles'[1] \in Unclaimed
             /\ available_tiles' = Unclaimed \ {adjacent_tiles'[1]}
        ELSE adjacent_tiles' = <<>> /\ available_tiles' = {}]_vars

\* the first plate has ended with a tile left in its frontier (an unclaimed tile next
\* to one of its tiles), and the next plate is seeded on a tile that is next to none
\* of the plate's tiles, the leftover tile being back in the unclaimed set
C17_Witness ==
    /\ pc = "loop" /\ panic = ""
    /\ generated_majors + generated_minors = 1 /\ merges = 0
    /\ Len(plate_builders) = 1
    /\ Len(adjacent_tiles) = 1
    /\ \A t \in Range(plate_builders[1].origin) : ~AdjacentTiles(t, adjacent_tiles[1])
    /\ \E u \in available_tiles :
        \E t \in Range(plate_builders[1].origin) : AdjacentTiles(t, u)

\* the loop of from_config is about to create a plate while a tile is unclaimed
LoopWithUnclaimed == pc = "loop" /\ panic = "" /\ Unclaimed # {}
\* neither kind of plate may take a tile
QuotasZero == major_tile_count = 0 /\ minor_tile_count = 0

\* C18: from_config terminates on every configuration in the documented ranges: the
\* loop reaches the state where unclaimed set and frontier are empty, or halts with a
\* fatal error; it is never in a state from which every plate it creates claims no
\* tile (both quotas zero while a tile is unclaimed), a state it would repeat forever
C18_LoopClaimsTilesUntilDone ==
    (LoopWithUnclaimed /\ FractionsInRange /\ config.min_plate_size >= 1
        /\ config.plate_goal >= 1) => ~QuotasZero

\* the calls one simulate makes on n plates, in the order the claim gives them
RECURSIVE PassCalls(_, _)
PassCalls(from, n) ==
    IF from > n THEN <<>>
    ELSE <<<<"apply_external_force", from>>, <<"apply_spring_forces", from>>,
           <<"update", from>>>> \o PassCalls(from + 1, n)
DriftCalls(n) == [i \in 1..n |-> <<"drift", i>>]
SimulateCalls(n) == PassCalls(1, n) \o DriftCalls(n)
IsPrefix(a, b) == Len(a) <= Len(b) /\ a = SubSeq(b, 1, Len(a))
\* a simulate call has made all its calls
SimulateOver == pc = "drift" /\ panic = "" /\ cursor > Len(plates)
\* the call that was made last was made on the plates' axes as they were at entry
AxesAsAtEntry ==
    \A i \in 1..Len(plates) : plates[i].axis_of_rotation = step.start[i].axis_of_rotation

\* C19: in every simulate call each plate receives apply_external_force, then
\* apply_spring_forces, then update, in that order and exactly once each, and the
\* drift of any plate's axis happens only after every plate has been updated, so all
\* forces of a step are computed with the axes as they were before that step's drift
C19_ForcesThenUpdateThenDrift ==
    /\ IsPrefix(step.calls, SimulateCalls(Len(step.start)))
    /\ SimulateOver => step.calls = SimulateCalls(Len(plates))
    /\ (step.calls # <<>> /\ step.calls[Len(step.calls)][1] # "drift") => AxesAsAtEntry

\* a simulate call on two or more plates has made all its calls and an axis has drifted
C19_Witness ==
    /\ SimulateOver
    /\ Len(plates) >= 2
    /\ step.calls = SimulateCalls(Len(plates))
    /\ ~AxesAsAtEntry

\* C20: the first plate generated by from_config uses the major tile quota and the
\* second the minor tile quota, for every major_plate_fraction in [0, 1]: the ratio
\* test is false when both counters are 0 and true when they are 1 and 0
C20_FirstMajorThenMinor ==
    /\ [][(PlateStarts /\ generated_majors = 0 /\ generated_minors = 0) =>
            /\ ~TakesMinorQuota
            /\ generated_majors' = 1 /\ generated_minors' = 0
            /\ tiles_to_take' = major_tile_count]_vars
    /\ [][(PlateStarts /\ generated_majors = 1 /\ generated_minors = 0) =>
            /\ TakesMinorQuota
            /\ generated_majors' = 1 /\ generated_minors' = 1
            /\ tiles_to_take' = minor_tile_count]_vars
    /\ [](generated_majors + generated_minors >= 1 => generated_majors >= 1)
    /\ [](generated_majors + generated_minors >= 2 => generated_minors >= 1)

\* the second plate has been started with the minor quota, which differs from the
\* major quota, under a major_plate_fraction of 1.0
C20_Witness ==
    /\ pc = "grow" /\ panic = "" /\ taken = 0
    /\ generated_majors = 1 /\ generated_minors = 1
    /\ config.major_plate_fraction = Unit
    /\ tiles_to_take = minor_tile_count
    /\ minor_tile_count # major_tile_count

\* every point mass of the plate has the mass of the plate's type
MassesOfType(plate) ==
    \A j \in 1..Len(plate.shape.point_masses) :
        plate.shape.point_masses[j].mass = ParticleMass(plate.plate_type)

\* C21: after assembly and after any number of simulate calls every point mass of a
\* Continental plate has mass 5 and every point mass of an Oceanic plate has mass 1,
\* point masses merged in from an undersized plate of the other type included
C21_MassFollowsPlateType ==
    (Returned /\ panic = "") =>
        \A i \in 1..Len(plates) :
            /\ plates[i].plate_type \in {"Continental", "Oceanic"}
            /\ MassesOfType(plates[i])

\* simulate has been called on plates of which one took in an undersized plate of
\* the other type
C21_Witness ==
    /\ Returned /\ panic = "" /\ tectonics_iteration > 0
    /\ \E pair \in merged_types : pair[1] # pair[2]
    /\ \A i \in 1..Len(plates) : MassesOfType(plates[i])

\* what simulate must leave alone: the type of each plate, the mass of each of its
\* point masses and its springs
Topology(ps) ==
    [i \in 1..Len(ps) |->
        [plate_type |-> ps[i].plate_type,
         masses |-> [j \in 1..Len(ps[i].shape.point_masses) |-> ps[i].shape.point_masses[j].mass],
         springs |-> ps[i].shape.springs]]

\* C22: simulate never changes topology: the number of plates, each plate's type, the
\* number of point masses and springs of each plate, every mass value and every
\* spring's anchors, rest length, spring constant and damping coefficient stay what
\* from_config returned, whatever else simulate changes
C22_SimulateKeepsTopology ==
    [][Returned => Topology(plates') = Topology(plates)]_vars

\* simulate has been called on two or more plates with springs: velocities and an
\* axis of rotation are no longer what from_config returned
C22_Witness ==
    /\ Returned /\ panic = "" /\ tectonics_iteration > 0
    /\ pc = "update"
    /\ Len(plates) >= 2
    /\ \E i \in 1..Len(plates) :
        /\ plates[i].shape.springs # <<>>
        /\ \E j \in 1..Len(plates[i].shape.point_masses) :
            plates[i].shape.point_masses[j].velocity # ZERO
    /\ ~AxesAsAtEntry

\* the drift loop of simulate is about to change the plate at the cursor
DriftOfPlate == pc = "drift" /\ panic = "" /\ cursor <= Len(plates)

\* C23: each simulate call draws exactly two values per plate from the shared random
\* source, in plate-list order (x then y perturbation of the first plate, then the
\* next plate, and so on), and none during the force and integration pass, so n
\* simulate calls on p plates advance the random source by exactly 2 * n * p draws
C23_TwoDrawsPerPlateAndStep ==
    /\ [][(Returned /\ ~DriftOfPlate) => rng'.draws = rng.draws]_vars
    /\ [][DriftOfPlate =>
            /\ rng.draws = step.draws + 2 * (cursor - 1)
            /\ rng'.draws = rng.draws + 2
            /\ plates'[cursor] = Drift(plates[cursor], config, step.draws + 2 * (cursor - 1))]_vars
    /\ [](SimulateOver => rng.draws = step.draws + 2 * Len(plates))

\* the second simulate call on two or more plates has made all its draws
C23_Witness ==
    /\ SimulateOver
    /\ tectonics_iteration = 1
    /\ Len(plates) >= 2
    /\ rng.draws = step.draws + 2 * Len(plates)

\* Shape::update is about to be called on the shape of the plate at the cursor
UpdateCalled == pc = "update_shape" /\ panic = ""

\* C24: after Shape::update(dt), for any dt, every point mass has a zero force
\* accumulator and a prev_force equal to the force accumulated just before the call,
\* so a force contributes to one update as the new acceleration and to the next as
\* the old one and never lingers in the accumulator
C24_UpdateMovesForceToPrevForce ==
    [][UpdateCalled =>
        /\ Len(plates'[cursor].shape.point_masses) = Len(plates[cursor].shape.point_masses)
        /\ \A j \in 1..Len(plates[cursor].shape.point_masses) :
            /\ plates'[cursor].shape.point_masses[j].force = ZERO
            /\ plates'[cursor].shape.point_masses[j].prev_force
                = plates[cursor].shape.point_masses[j].force]_vars

\* an update with a timestep other than zero has returned on a point mass that had
\* accumulated a force while its previous force was another one
C24_Witness ==
    /\ panic = "" /\ step.calls # <<>>
    /\ step.calls[Len(step.calls)] = <<"update", cursor - 1>>
    /\ config.timestep # 0
    /\ \E j \in 1..Len(plates[cursor - 1].shape.point_masses) :
        /\ step.start[cursor - 1].shape.point_masses[j].force = <<0, Unit, 0>>
        /\ step.start[cursor - 1].shape.point_masses[j].prev_force = ZERO
        /\ plates[cursor - 1].shape.point_masses[j].prev_force = <<0, Unit, 0>>
        /\ plates[cursor - 1].shape.point_masses[j].force = ZERO

\* a force pass is about to be made on the plate at the cursor
ForcePass ==
    /\ pc \in {"apply_external_force", "apply_spring_forces"}
    /\ panic = "" /\ cursor <= Len(plates)
\* the plate with every force accumulator cleared
Cleared(plate) ==
    [plate EXCEPT !.shape.point_masses =
        [j \in 1..Len(plate.shape.point_masses) |->
            [plate.shape.point_masses[j] EXCEPT !.force = ZERO]]]
\* what apply_external_force and apply_spring_forces add to the accumulator of point
\* mass j of the plate: what they leave in an accumulator that was clear
ExternalContribution(plate, j) ==
    ApplyExternalForce(Cleared(plate), config).shape.point_masses[j].force
SpringContribution(plate, j) ==
    ApplySpringForces(Cleared(plate).shape).point_masses[j].force

\* C25: apply_external_force and apply_spring_forces only add to the force
\* accumulators: they never overwrite a force accumulated before (two calls before
\* one update sum), and they leave every position, velocity, prev_force, mass,
\* spring, centroid and bounding radius unchanged
C25_ForcePassesOnlyAdd ==
    [][ForcePass =>
        /\ plates'[cursor] = [plates[cursor] EXCEPT
                                !.shape.point_masses = plates'[cursor].shape.point_masses]
        /\ Len(plates'[cursor].shape.point_masses) = Len(plates[cursor].shape.point_masses)
        /\ \A j \in 1..Len(plates[cursor].shape.point_masses) :
            plates'[cursor].shape.point_masses[j] =
                [plates[cursor].shape.point_masses[j] EXCEPT
                    !.force = VAdd(@, IF pc = "apply_external_force"
                                      THEN ExternalContribution(plates[cursor], j)
                                      ELSE SpringContribution(plates[cursor], j))]]_vars

\* both passes have been made on a point mass that held a force before them, each
\* has contributed, and the accumulator holds the sum of the three
C25_Witness ==
    /\ pc = "update_shape" /\ panic = ""
    /\ step.calls = <<<<"apply_external_force", cursor>>, <<"apply_spring_forces", cursor>>>>
    /\ \E j \in 1..Len(plates[cursor].shape.point_masses) :
        /\ step.start[cursor].shape.point_masses[j].force \notin {ZERO, NAN3}
        /\ ExternalContribution(plates[cursor], j) \notin {ZERO, NAN3}
        /\ SpringContribution(plates[cursor], j) \notin {ZERO, NAN3}
        /\ plates[cursor].shape.point_masses[j].force =
            VAdd(VAdd(step.start[cursor].shape.point_masses[j].force,
                      ExternalContribution(plates[cursor], j)),
                 SpringContribution(plates[cursor], j))

\* C26: after Shape::update, within_bounding_spherical_cap(p.position) is true for
\* every point mass p of that same shape, the one farthest from the centroid included
C26_CapHoldsOwnPointMasses ==
    [][(UpdateCalled /\ panic' = "") =>
        \A j \in 1..Len(plates'[cursor].shape.point_masses) :
            WithinBoundingSphericalCap(plates'[cursor].shape,
                                       plates'[cursor].shape.point_masses[j].position)]_vars

\* C27: no spring produced by assembly has anchor_a equal to anchor_b, on every tile
\* graph the provider can supply, one whose adjacency lists contain the tile's own
\* index included
C27_NoSpringFromAMassToItself ==
    (Returned /\ panic = "" /\ tectonics_iteration = 0) =>
        \A i \in 1..Len(plates) : \A k \in 1..Len(plates[i].shape.springs) :
            plates[i].shape.springs[k].anchor_a # plates[i].shape.springs[k].anchor_b

\* how often the tile t occurs in a list of tiles
Occurrences(tiles, t) == Cardinality({j \in 1..Len(tiles) : tiles[j] = t})
\* the number of places that hold the tile t: the unclaimed set, the frontier, the
\* plate under construction and the accepted plates, each occurrence counted
PlacesOf(t) ==
    (IF t \in available_tiles THEN 1 ELSE 0)
    + Occurrences(adjacent_tiles, t)
    + Occurrences(builder.origin, t)
    + Cardinality({ij \in (1..Len(plate_builders)) \X (1..tile_count) :
                      /\ ij[2] <= Len(plate_builders[ij[1]].origin)
                      /\ plate_builders[ij[1]].origin[ij[2]] = t})
\* the assembly loop has been entered and has not returned
InAssemblyLoop == pc \in {"loop", "grow", "reseed"}
\* the loop condition holds: an iteration of the assembly loop starts
IterationStarts ==
    pc = "loop" /\ panic = "" /\ (Cardinality(available_tiles) > 0 \/ Len(adjacent_tiles) > 0)

\* C28: at every point of the assembly loop each tile is in exactly one of the
\* unclaimed set, the frontier (once), the plate under construction and the accepted
\* plates; when an iteration of the loop starts the frontier holds exactly one tile
C28_EveryTileInOnePlace ==
    /\ InAssemblyLoop => \A t \in 0..(tile_count - 1) : PlacesOf(t) = 1
    /\ IterationStarts => Len(adjacent_tiles) = 1

\* a plate is growing after an earlier one was accepted, with tiles in all four places
C28_Witness ==
    /\ pc = "grow" /\ panic = ""
    /\ available_tiles # {} /\ adjacent_tiles # <<>>
    /\ builder.origin # <<>> /\ plate_builders # <<>>

\* Tectonics::simulate is called
SimulateEntered == pc = "update" /\ pc' = "apply_external_force"
\* Tectonics::simulate returns to simulate_system
SimulateReturned == pc = "drift" /\ pc' = "update"
\* simulate_system runs in this update
SimulateSystemRuns == "simulate_system" \in pending /\ "simulate_system" \notin pending'

\* C29: the driver calls Tectonics::simulate exactly config.iterations times: the
\* counter starts at 0, grows by one per simulate call and by nothing else, never
\* exceeds config.iterations; simulate_system steps while the counter is below
\* config.iterations, and on the update where the two are equal it takes no step and
\* requests Erosion; the phase leaves Tectonics only with the counter at
\* config.iterations, and afterwards simulate is not called
C29_SimulateCalledIterationsTimes ==
    /\ [](InFromConfig => tectonics_iteration = 0)
    /\ [](tectonics_iteration <= config.iterations)
    /\ [][SimulateEntered =>
            /\ SimulateSystemRuns /\ state = "Tectonics"
            /\ tectonics_iteration < config.iterations]_vars
    /\ [][(tectonics_iteration' # tectonics_iteration) <=> SimulateReturned]_vars
    /\ [][SimulateReturned => tectonics_iteration' = tectonics_iteration + 1]_vars
    /\ [][(SimulateSystemRuns /\ tectonics_iteration < config.iterations) =>
            SimulateEntered]_vars
    /\ [][(SimulateSystemRuns /\ tectonics_iteration = config.iterations) =>
            /\ ~SimulateEntered
            /\ next_state' = "Erosion"
            /\ plates' = plates /\ rng' = rng]_vars
    /\ [](state # "Tectonics" =>
            state = "Erosion" /\ tectonics_iteration = config.iterations /\ pc = "update")
    /\ [][state # "Tectonics" => ~SimulateEntered]_vars

\* the phase has changed to Erosion after more than one step was configured and taken
C29_Witness ==
    /\ state = "Erosion" /\ panic = ""
    /\ config.iterations >= 2
    /\ tectonics_iteration = config.iterations

\* the indices (0-based) of the springs of a shape that have point mass i as an anchor
SpringsAt(shape, i) ==
    {k - 1 : k \in {n \in 1..Len(shape.springs) :
                       shape.springs[n].anchor_a = i \/ shape.springs[n].anchor_b = i}}
\* no element occurs twice in the list
NoDuplicates(list) == Cardinality(Range(list)) = Len(list)

\* C30: for a shape built only through add_point_mass and add_spring, the anchors of
\* every spring indexing point masses added earlier, spring_map has a key for every
\* point-mass index and maps index i to exactly the indices of the springs that have
\* i as anchor_a or anchor_b, each spring index listed once
C30_SpringMapListsAnchoredSprings ==
    pc = "build" =>
        LET shape == plates[1].shape
        IN  /\ DOMAIN shape.spring_map = 0..(Len(shape.point_masses) - 1)
            /\ \A i \in DOMAIN shape.spring_map :
                /\ Range(shape.spring_map[i]) = SpringsAt(shape, i)
                /\ NoDuplicates(shape.spring_map[i])

====
